---------------------------- MODULE Spec2Model ----------------------------
(***************************************************************************)
(* The decision core of Car_Chooser (src/streamlit_app.py): the incentive  *)
(* calculator, the TCO calculator, the scoring engine, the preference      *)
(* filter, the powertrain advisor, the recommendation pipeline of main()  *)
(* and the merge of the importer's evdb_sync.json (src/evdb_scraper.py)    *)
(* into the catalog by load_vehicle_database.                              *)
(*                                                                         *)
(* Conventions.                                                            *)
(*  - A vehicle record is a Python dict: here a function whose DOMAIN is   *)
(*    the set of keys that are present.  Get(d, k, default) is d.get(k,    *)
(*    default).  Python's None is the string "None".                       *)
(*  - Money computed by the code (incentive, TCO figures) is held in       *)
(*    hundredths of the currency unit (Cents); prices, budgets and table   *)
(*    amounts are in whole units as the source writes them.                *)
(*  - Rates with one decimal (kWh/100km, L/100km, ratings) are held in     *)
(*    tenths, unit costs in hundredths; every input set below is chosen    *)
(*    so that each product the code forms is a whole number of Cents.      *)
(*  - A quotient the code forms with "/" is the exact fraction, kept in    *)
(*    lowest terms as [num, den].                                          *)
(*  - A call that raises returns [exc |-> <exception name>].               *)
(***************************************************************************)
EXTENDS Integers, Sequences, FiniteSets, TLC

VARIABLES
    pc,                \* position of the caller
    catalog,           \* vehicles_data: the list of vehicle records
    prefs,             \* preferences: the UserPreferences value
    vehicle,           \* vehicle_data argument of a single-vehicle call
    region,            \* region argument of calculate_incentive
    incentives_cache,  \* st.cache_data memo of get_incentives_data
    incentive,         \* last return value of calculate_incentive
    tco,               \* last return value of calculate_tco
    first_tco,         \* return value of the first calculate_tco call
    calls,             \* the core functions called so far, in order
    score,             \* last return value of score_vehicle
    filtered,          \* filtered_vehicles
    scored_vehicles,   \* scored_vehicles
    pt_rec,            \* pt_rec: last return value of recommend_powertrain
    sync_file,         \* evdb_sync.json: absent, or the list it holds
    load_cache,        \* st.cache_data memo of load_vehicle_database
    loaded,            \* last return value of load_vehicle_database
    ties_up            \* the direction in which round() settles an exact tie

vars == <<pc, catalog, prefs, vehicle, region, incentives_cache, incentive,
          tco, first_tco, calls, score, filtered, scored_vehicles, pt_rec,
          sync_file, load_cache, loaded, ties_up>>

\* the sync file, the memo of load_vehicle_database and its last result
sync_vars == <<sync_file, load_cache, loaded>>

-----------------------------------------------------------------------------
(* Python values *)

\* dict.get(k, default)
Get(d, k, default) == IF k \in DOMAIN d THEN d[k] ELSE default

\* the empty dict
EmptyDict == <<>>

\* the dicts that either lack key k or hold one of the values S under it
Opt(k, S) == {EmptyDict} \cup {k :> x : x \in S}

\* a value no call has produced yet
NoValue == [exc |-> "not called"]

Cents(units) == units * 100

RECURSIVE GCD(_, _)
GCD(a, b) == IF b = 0 THEN a ELSE GCD(b, a % b)

Abs(x) == IF x < 0 THEN -x ELSE x

\* the exact quotient num / den (den > 0) in lowest terms
Quotient(num, den) ==
    LET g == GCD(Abs(num), den)
    IN  IF num = 0 THEN [num |-> 0, den |-> 1]
        ELSE [num |-> num \div g, den |-> den \div g]

-----------------------------------------------------------------------------
(* Region codes *)

\* the values of the Region enumeration
RegionValues ==
    {"usa_federal", "usa_california", "usa_colorado", "usa_new_jersey",
     "usa_new_york", "usa_texas", "canada_federal", "canada_quebec",
     "canada_bc", "canada_ontario", "uk", "germany", "france", "netherlands",
     "norway", "australia", "portugal"}

\* codes outside the enumeration, one of them with the federal prefix
UnknownRegionCodes == {"atlantis", "usa_puerto_rico"}

RegionCodes == RegionValues \cup UnknownRegionCodes

\* a prefix test that every code passes
EveryRegionFederal(code) == code \in RegionCodes

\* region.startswith("usa"), over RegionCodes
startswith_usa(code) ==
    code \in {"usa_federal", "usa_california", "usa_colorado",
              "usa_new_jersey", "usa_new_york", "usa_texas",
              "usa_puerto_rico"}

-----------------------------------------------------------------------------
(* Incentive calculator *)

\* the dict get_incentives_data builds (the display name of a row is left out)
IncentivesData ==
    [r \in RegionValues \ {"portugal"} |->
        CASE r = "usa_federal"    -> [ev |-> 7500,  phev |-> 3750]
          [] r = "usa_california" -> [ev |-> 9500,  phev |-> 5750]
          [] r = "usa_colorado"   -> [ev |-> 12500, phev |-> 6250]
          [] r = "usa_new_jersey" -> [ev |-> 11500, phev |-> 3750]
          [] r = "usa_new_york"   -> [ev |-> 10000, phev |-> 4250]
          [] r = "usa_texas"      -> [ev |-> 10000, phev |-> 6250]
          [] r = "canada_federal" -> [ev |-> 5000,  phev |-> 2500]
          [] r = "canada_quebec"  -> [ev |-> 12000, phev |-> 7500]
          [] r = "canada_bc"      -> [ev |-> 9000,  phev |-> 4500]
          [] r = "canada_ontario" -> [ev |-> 5000,  phev |-> 2500]
          [] r = "uk"             -> [ev |-> 1500,  phev |-> 0]
          [] r = "germany"        -> [ev |-> 4500,  phev |-> 0]
          [] r = "france"         -> [ev |-> 5000,  phev |-> 0]
          [] r = "netherlands"    -> [ev |-> 2950,  phev |-> 0]
          [] r = "norway"         -> [ev |-> 0,     phev |-> 0]
          [] r = "australia"      -> [ev |-> 3000,  phev |-> 0]]

\* the memo before the first call
EmptyCache == [loaded |-> FALSE, value |-> EmptyDict]

\* a memo that hands out the dict it holds, not a copy, to a caller that
\* halves the amounts in place
GetIncentivesDataShared(cache) ==
    IF cache.loaded
    THEN [loaded |-> TRUE,
          value  |-> [r \in DOMAIN cache.value |->
                        [ev   |-> cache.value[r].ev \div 2,
                         phev |-> cache.value[r].phev \div 2]]]
    ELSE [loaded |-> TRUE, value |-> IncentivesData]

\* @st.cache_data get_incentives_data: the memo after a call; the first call
\* builds the dict, a later one returns what the memo holds
get_incentives_data(cache) ==
    IF cache.loaded THEN cache ELSE [loaded |-> TRUE, value |-> IncentivesData]

\* a price-cap test that already fails at the ceiling
OverPriceCapWrong(vehicle_type, price) ==
    IF vehicle_type \in {"sedan", "hatchback"}
    THEN price >= 55000
    ELSE price >= 80000

\* the price-cap test of the federal family: sedan and hatchback lose the
\* incentive above 55000, every other body type above 80000
over_price_cap(vehicle_type, price) ==
    IF vehicle_type \in {"sedan", "hatchback"}
    THEN price > 55000
    ELSE price > 80000

\* a fixed deduction of 5000 in place of the halving
HalfAmountWrong(amount) == Cents(amount) - Cents(5000)

\* amount * 0.5, in Cents
half_amount(amount) == Cents(amount) \div 2

\* calculate_incentive(vehicle_data, region), reading the table `incentives`;
\* the result is in Cents
calculate_incentive(vehicle_data, region_code, incentives) ==
    LET region_data == Get(incentives, region_code, [ev |-> 0, phev |-> 0])
        powertrain  == Get(vehicle_data, "powertrain", "EV")
        price       == Get(vehicle_data, "base_price", 0)
        amount      == Get(region_data,
                           IF powertrain = "EV" THEN "ev" ELSE "phev", 0)
        vehicle_type == Get(vehicle_data, "vehicle_type", "sedan")
    IN  IF startswith_usa(region_code)
        THEN IF over_price_cap(vehicle_type, price)
             THEN 0
             ELSE IF ~Get(vehicle_data, "made_in_north_america", FALSE)
                  THEN half_amount(amount)
                  ELSE Cents(amount)
        ELSE Cents(amount)

-----------------------------------------------------------------------------
(* Preferences *)

\* a Region member: it has the attribute .value
RegionMember(code) == [is_enum |-> TRUE, value |-> code]

\* a plain str given where a Region member is expected: it has no .value
RegionStr(code) == [is_enum |-> FALSE, value |-> code]

\* UserPreferences(): every field at the default the dataclass declares.
\* Lists are sequences; vehicle_types holds the VehicleType values.
DefaultPreferences ==
    [daily_commute_km        |-> 50,
     annual_km               |-> 20000,
     long_trips_frequency    |-> "rarely",
     typical_long_trip_km    |-> 400,
     home_charging_available |-> TRUE,
     home_charging_type      |-> "level2",
     work_charging_available |-> FALSE,
     public_charging_reliance |-> "low",
     max_budget              |-> 50000,
     min_budget              |-> 0,
     consider_incentives     |-> TRUE,
     region                  |-> RegionMember("usa_federal"),
     ownership_years         |-> 5,
     expected_resale_percent |-> 50,
     electricity_cost_kwh    |-> 15,       \* 0.15, in hundredths
     gas_cost_liter          |-> 150,      \* 1.50, in hundredths
     vehicle_types           |-> <<"sedan", "suv">>,
     min_seats               |-> 5,
     min_cargo_liters        |-> 300,
     needs_awd               |-> FALSE,
     needs_towing            |-> FALSE,
     min_towing_kg           |-> 0,
     range_priority          |-> 3,
     charging_speed_priority |-> 3,
     acceleration_priority   |-> 2,
     efficiency_priority     |-> 3,
     tech_features_priority  |-> 3,
     safety_priority         |-> 4,
     reliability_priority    |-> 4,
     cargo_priority          |-> 3,
     zero_emissions_priority |-> 3,
     preferred_brands        |-> <<>>,
     excluded_brands         |-> <<>>]

\* x in a_list
InList(x, a_list) == \E k \in 1..Len(a_list) : a_list[k] = x

-----------------------------------------------------------------------------
(* TCO calculator *)

\* a premium table that has rows for the usa regions only
RegionInsuranceUsaOnly(region_key) ==
    CASE region_key = "usa_federal"    -> 1800
      [] region_key = "usa_california" -> 2000
      [] region_key = "usa_colorado"   -> 1700
      [] region_key = "usa_new_jersey" -> 2100
      [] region_key = "usa_new_york"   -> 2200
      [] region_key = "usa_texas"      -> 1600
      [] OTHER                         -> 1500

\* region_insurance_map.get(region_key, 1500)
region_insurance(region_key) ==
    CASE region_key = "usa_federal"    -> 1800
      [] region_key = "usa_california" -> 2000
      [] region_key = "usa_colorado"   -> 1700
      [] region_key = "usa_new_jersey" -> 2100
      [] region_key = "usa_new_york"   -> 2200
      [] region_key = "usa_texas"      -> 1600
      [] region_key = "canada_federal" -> 1400
      [] region_key = "canada_quebec"  -> 1200
      [] region_key = "canada_bc"      -> 1300
      [] region_key = "canada_ontario" -> 1350
      [] region_key = "uk"             -> 900
      [] region_key = "germany"        -> 800
      [] region_key = "france"         -> 850
      [] region_key = "netherlands"    -> 950
      [] region_key = "norway"         -> 1000
      [] region_key = "australia"      -> 1100
      [] region_key = "portugal"       -> 700
      [] OTHER                         -> 1500

\* the two range tests made strict
ElectricRatioStrict(electric_range, daily_km) ==
    IF electric_range > daily_km THEN 7
    ELSE IF electric_range * 2 > daily_km THEN 5
    ELSE 3

\* the electric share of a PHEV's distance, in tenths: 0.70, 0.50 or 0.30
\* (electric_range >= daily_km * 0.5 is written without the fraction)
electric_ratio(electric_range, daily_km) ==
    IF electric_range >= daily_km THEN 7
    ELSE IF electric_range * 2 >= daily_km THEN 5
    ELSE 3

\* the blend of electricity and fuel charged to every powertrain
AnnualFuelCostBlended(vehicle_data, preferences) ==
    LET ratio == IF Get(vehicle_data, "range_km", 50)
                       >= preferences.daily_commute_km THEN 7 ELSE 5
    IN  (Get(vehicle_data, "kwh_per_100km", 180) * preferences.annual_km
            * ratio * preferences.electricity_cost_kwh) \div 10000
        + (Get(vehicle_data, "l_per_100km", 60) * preferences.annual_km
            * (10 - ratio) * preferences.gas_cost_liter) \div 10000

\* a dispatch that charges the blend to 'PHEV' alone and treats every other
\* powertrain as an EV
AnnualFuelCostPhevOnly(vehicle_data, preferences) ==
    LET ratio == electric_ratio(Get(vehicle_data, "range_km", 50),
                                preferences.daily_commute_km)
    IN  IF Get(vehicle_data, "powertrain", "EV") = "PHEV"
        THEN (Get(vehicle_data, "kwh_per_100km", 180) * preferences.annual_km
                * ratio * preferences.electricity_cost_kwh) \div 10000
             + (Get(vehicle_data, "l_per_100km", 60) * preferences.annual_km
                * (10 - ratio) * preferences.gas_cost_liter) \div 10000
        ELSE (Get(vehicle_data, "kwh_per_100km", 180) * preferences.annual_km
                * preferences.electricity_cost_kwh) \div 1000

\* annual_fuel_cost in Cents.  kwh_per_100km and l_per_100km are in tenths,
\* the unit costs in hundredths.
annual_fuel_cost(vehicle_data, preferences) ==
    LET annual_km     == preferences.annual_km
        powertrain    == Get(vehicle_data, "powertrain", "EV")
        kwh_per_100km == Get(vehicle_data, "kwh_per_100km", 180)
        l_per_100km   == Get(vehicle_data, "l_per_100km", 60)
        ratio         == electric_ratio(Get(vehicle_data, "range_km", 50),
                                        preferences.daily_commute_km)
        electric_cost == (kwh_per_100km * annual_km * ratio
                            * preferences.electricity_cost_kwh) \div 10000
        gas_cost      == (l_per_100km * annual_km * (10 - ratio)
                            * preferences.gas_cost_liter) \div 10000
    IN  IF powertrain = "EV"
        THEN (kwh_per_100km * annual_km * preferences.electricity_cost_kwh)
                \div 1000
        ELSE electric_cost + gas_cost

\* the two divisions without the test of annual_km
CloseTcoGuardless(total_tco, annual_km, years) ==
    IF annual_km * years = 0
    THEN [exc |-> "ZeroDivisionError"]
    ELSE [exc |-> "none",
          cost_per_km   |-> Quotient(total_tco, annual_km * years),
          cost_per_year |-> Quotient(total_tco, years)]

\* cost_per_km and cost_per_year, the two divisions that close calculate_tco:
\* total_tco / (annual_km * years) if annual_km > 0 else 0, and
\* total_tco / years.  A division by zero raises ZeroDivisionError.
close_tco(total_tco, annual_km, years) ==
    IF (annual_km > 0 /\ annual_km * years = 0) \/ years = 0
    THEN [exc |-> "ZeroDivisionError"]
    ELSE [exc |-> "none",
          cost_per_km   |-> IF annual_km > 0
                            THEN Quotient(total_tco, annual_km * years)
                            ELSE Quotient(0, 1),
          cost_per_year |-> Quotient(total_tco, years)]

\* a net price that stops at 0
NetPriceClamped(purchase_price, incentive_amount) ==
    IF purchase_price > incentive_amount
    THEN purchase_price - incentive_amount ELSE 0

\* net_purchase_price = purchase_price - incentive
net_price(purchase_price, incentive_amount) ==
    purchase_price - incentive_amount

\* an aggregate that adds the net price to the depreciation
AggregateWithNetPrice(net_purchase_price, resale_value, total_fuel, total_maintenance, total_insurance, total_registration) ==
    net_purchase_price + (net_purchase_price - resale_value)
        + total_fuel + total_maintenance + total_insurance
        + total_registration

\* total_tco = net_purchase_price - resale_value + total_fuel
\*             + total_maintenance + total_insurance + total_registration
aggregate_tco(net_purchase_price, resale_value, total_fuel, total_maintenance, total_insurance, total_registration) ==
    net_purchase_price - resale_value + total_fuel + total_maintenance
        + total_insurance + total_registration

\* calculate_tco(vehicle_data, preferences), reading the incentive table
\* `incentives`: a TCOResult with its money in Cents, or the exception raised
calculate_tco(vehicle_data, preferences, incentives) ==
    LET region_code    == preferences.region.value
        incentive_     == calculate_incentive(vehicle_data, region_code,
                                              incentives)
        purchase_price == Cents(Get(vehicle_data, "base_price", 0) + 1500)
        net_purchase_price == net_price(purchase_price, incentive_)
        annual_km      == preferences.annual_km
        powertrain     == Get(vehicle_data, "powertrain", "EV")
        fuel           == annual_fuel_cost(vehicle_data, preferences)
        maintenance    == IF powertrain = "EV" THEN annual_km * 3
                                               ELSE annual_km * 5
        base_insurance == region_insurance(region_code)
        \* (base_price / 10000) * 100 units is base_price hundredths
        price_factor   == Get(vehicle_data, "base_price", 40000)
        insurance      == Cents(base_insurance) + price_factor
        registration   == IF powertrain = "EV" THEN Cents(150) ELSE Cents(200)
        years          == preferences.ownership_years
        resale_percent == IF powertrain = "EV" THEN 45 ELSE 40
        resale_value   == (net_purchase_price * resale_percent) \div 100
        depreciation_  == net_purchase_price - resale_value
        total_tco      == aggregate_tco(net_purchase_price, resale_value,
                                        fuel * years, maintenance * years,
                                        insurance * years,
                                        registration * years)
        ice_annual_fuel == (9 * annual_km * preferences.gas_cost_liter)
                             \div 100
        ice_annual_maintenance == annual_km * 7
        ice_total      == Cents(20000) + ice_annual_fuel * years
                            + ice_annual_maintenance * years
                            + Cents(1500) * years + Cents(150) * years
        closing        == close_tco(total_tco, annual_km, years)
    IN  IF ~preferences.region.is_enum
        THEN [exc |-> "AttributeError"]
        ELSE IF closing.exc # "none"
        THEN [exc |-> closing.exc]
        ELSE [exc                     |-> "none",
              vehicle_name            |-> Get(vehicle_data, "name", "Unknown"),
              purchase_price          |-> purchase_price,
              incentives_total        |-> incentive_,
              net_purchase_price      |-> net_purchase_price,
              annual_fuel_cost        |-> fuel,
              annual_maintenance_cost |-> maintenance,
              annual_insurance_cost   |-> insurance,
              annual_registration_cost |-> registration,
              total_fuel_cost         |-> fuel * years,
              total_maintenance_cost  |-> maintenance * years,
              total_insurance_cost    |-> insurance * years,
              total_registration_cost |-> registration * years,
              depreciation            |-> depreciation_,
              total_cost_of_ownership |-> total_tco,
              cost_per_km             |-> closing.cost_per_km,
              cost_per_year           |-> closing.cost_per_year,
              savings_vs_avg_ice      |-> ice_total - total_tco]

-----------------------------------------------------------------------------
(* Scoring engine *)

\* round(x, 1) of the quotient x = num / (10 * den), in tenths, for den > 0
\* and num >= 0: the nearest tenth.  When the exact quotient lies halfway
\* between two tenths, the binary double the code holds lies just below or
\* just above it, and that decides the direction: `up` says which.
round_tenths(num, den, up) ==
    LET q == num \div den
        r == num % den
    IN  IF 2 * r < den THEN q
        ELSE IF 2 * r > den THEN q + 1
        ELSE IF up THEN q + 1 ELSE q

Min(a, b) == IF a <= b THEN a ELSE b

\* a Range ladder whose thresholds are exclusive
RangeScoreStrict(vehicle_range, daily_need) ==
    IF vehicle_range > daily_need * 5 THEN 100
    ELSE IF vehicle_range > daily_need * 3 THEN 80
    ELSE IF vehicle_range > daily_need * 2 THEN 60
    ELSE IF vehicle_range * 2 > daily_need * 3 THEN 40
    ELSE 20

\* the Range ladder (vehicle_range >= daily_need * 1.5 is written without
\* the fraction); sub-scores are in tenths, 100 is the score 10
range_score(vehicle_range, daily_need) ==
    IF vehicle_range >= daily_need * 5 THEN 100
    ELSE IF vehicle_range >= daily_need * 3 THEN 80
    ELSE IF vehicle_range >= daily_need * 2 THEN 60
    ELSE IF vehicle_range * 2 >= daily_need * 3 THEN 40
    ELSE 20

charging_score(dc_kw) ==
    IF dc_kw >= 250 THEN 100
    ELSE IF dc_kw >= 200 THEN 80
    ELSE IF dc_kw >= 150 THEN 60
    ELSE IF dc_kw >= 100 THEN 40
    ELSE 20

\* efficiency is kwh_per_100km in tenths
eff_score(efficiency) ==
    IF efficiency <= 140 THEN 100
    ELSE IF efficiency <= 160 THEN 80
    ELSE IF efficiency <= 180 THEN 60
    ELSE IF efficiency <= 200 THEN 40
    ELSE 20

\* zero_to_100 is zero_to_100_kmh in tenths of a second
accel_score(zero_to_100) ==
    IF zero_to_100 <= 35 THEN 100
    ELSE IF zero_to_100 <= 45 THEN 80
    ELSE IF zero_to_100 <= 55 THEN 60
    ELSE IF zero_to_100 <= 70 THEN 40
    ELSE 20

\* cargo >= min_cargo_liters * 1.5 is written without the fraction
cargo_score(cargo, min_cargo_liters) ==
    IF cargo >= min_cargo_liters * 2 THEN 100
    ELSE IF cargo * 2 >= min_cargo_liters * 3 THEN 80
    ELSE IF cargo >= min_cargo_liters THEN 60
    ELSE 40

\* the truth value of vehicle_data.get(flag): a missing flag is None
Flag(vehicle_data, flag) == Get(vehicle_data, flag, FALSE)

\* feature points of 5/2/2/2/1 added up without the cap
TechScoreUncappedHeavy(vehicle_data) ==
    ((IF Flag(vehicle_data, "autopilot_available") THEN 5 ELSE 0)
     + (IF Flag(vehicle_data, "ota_updates") THEN 2 ELSE 0)
     + (IF Flag(vehicle_data, "heat_pump") THEN 2 ELSE 0)
     + (IF Flag(vehicle_data, "v2l_capable") THEN 2 ELSE 0)
     + (IF Flag(vehicle_data, "v2h_capable") THEN 1 ELSE 0)) * 10

\* the Tech sub-score: 3/2/2/2/1 points for the five flags, at most 10
tech_score(vehicle_data) ==
    Min((IF Flag(vehicle_data, "autopilot_available") THEN 3 ELSE 0)
        + (IF Flag(vehicle_data, "ota_updates") THEN 2 ELSE 0)
        + (IF Flag(vehicle_data, "heat_pump") THEN 2 ELSE 0)
        + (IF Flag(vehicle_data, "v2l_capable") THEN 2 ELSE 0)
        + (IF Flag(vehicle_data, "v2h_capable") THEN 1 ELSE 0), 10) * 10

\* scores: the sub-score of each category, in tenths.  safety_rating_ncap and
\* reliability_score are ratings in tenths, so rating * 2 is in tenths too.
category_scores(vehicle_data, preferences) ==
    [Range       |-> range_score(Get(vehicle_data, "range_km", 0),
                                 preferences.daily_commute_km),
     Charging    |-> charging_score(Get(vehicle_data, "dc_charging_kw", 0)),
     Efficiency  |-> eff_score(Get(vehicle_data, "kwh_per_100km", 200)),
     Performance |-> accel_score(Get(vehicle_data, "zero_to_100_kmh", 80)),
     Safety      |-> Get(vehicle_data, "safety_rating_ncap", 50) * 2,
     Reliability |-> Get(vehicle_data, "reliability_score", 40) * 2,
     Cargo       |-> cargo_score(Get(vehicle_data, "cargo_liters", 400),
                                 preferences.min_cargo_liters),
     Tech        |-> tech_score(vehicle_data)]

\* the weight score_vehicle pairs with each category
category_weight(preferences) ==
    [Range       |-> preferences.range_priority,
     Charging    |-> preferences.charging_speed_priority,
     Efficiency  |-> preferences.efficiency_priority,
     Performance |-> preferences.acceleration_priority,
     Safety      |-> preferences.safety_priority,
     Reliability |-> preferences.reliability_priority,
     Cargo       |-> preferences.cargo_priority,
     Tech        |-> preferences.tech_features_priority]

Categories ==
    <<"Range", "Charging", "Efficiency", "Performance", "Safety",
      "Reliability", "Cargo", "Tech">>

RECURSIVE SumOver(_, _)
\* f[c] summed over the categories c of the list cs
SumOver(f, cs) ==
    IF cs = <<>> THEN 0 ELSE f[Head(cs)] + SumOver(f, Tail(cs))

\* a bonus given to every vehicle once any brand is preferred
BrandBonusAnyList(vehicle_data, preferences) ==
    IF preferences.preferred_brands # <<>> THEN 5 ELSE 0

\* brand_bonus: 5 when the brand is a preferred one
brand_bonus(vehicle_data, preferences) ==
    IF /\ preferences.preferred_brands # <<>>
       /\ InList(Get(vehicle_data, "brand", "None"),
                 preferences.preferred_brands)
    THEN 5 ELSE 0

\* round(min(final_score + brand_bonus, 100), 1) in tenths, where final_score
\* is (total_score / max_possible) * 100, or 0 when max_possible is 0;
\* total_score is in tenths
FinalScoreUnclamped(total_score, max_possible, bonus, up) ==
    IF max_possible > 0
    THEN round_tenths(total_score * 100 + bonus * 10 * max_possible,
                      max_possible, up)
    ELSE bonus * 10

final_score(total_score, max_possible, bonus, up) ==
    IF max_possible > 0
    THEN IF total_score * 10 + bonus * max_possible >= 100 * max_possible
         THEN 1000
         ELSE round_tenths(total_score * 100 + bonus * 10 * max_possible,
                           max_possible, up)
    ELSE Min(bonus, 100) * 10

\* score_vehicle(vehicle_data, preferences)
score_vehicle(vehicle_data, preferences, up) ==
    LET scores  == category_scores(vehicle_data, preferences)
        weights == category_weight(preferences)
        total_score  == SumOver([c \in DOMAIN scores |->
                                    scores[c] * weights[c]], Categories)
        max_possible == SumOver([c \in DOMAIN scores |-> weights[c] * 10],
                                Categories)
        bonus == brand_bonus(vehicle_data, preferences)
    IN  [final_score     |-> final_score(total_score, max_possible, bonus, up),
         category_scores |-> scores,
         brand_bonus     |-> bonus]

-----------------------------------------------------------------------------
(* Preference filter *)

\* the body of the loop of filter_vehicles: TRUE when no test reaches
\* `continue`, so that v is appended.  base_price > max_budget * 1.1 is
\* written without the fraction.
OverBudgetStrict(price, max_budget) == price * 10 >= max_budget * 11

over_budget(price, max_budget) == price * 10 > max_budget * 11

\* a filter that also drops a vehicle whose cargo volume is below the minimum
PassesFilterWithCargo(v, preferences) ==
    /\ ~over_budget(Get(v, "base_price", 0), preferences.max_budget)
    /\ Get(v, "base_price", 0) >= preferences.min_budget
    /\ InList(Get(v, "vehicle_type", "None"), preferences.vehicle_types)
    /\ Get(v, "seats", 5) >= preferences.min_seats
    /\ (preferences.needs_awd => Get(v, "awd", FALSE))
    /\ (preferences.needs_towing
          => Get(v, "towing_capacity_kg", 0) >= preferences.min_towing_kg)
    /\ ~InList(Get(v, "brand", "None"), preferences.excluded_brands)
    /\ Get(v, "cargo_liters", 400) >= preferences.min_cargo_liters

passes_filter(v, preferences) ==
    IF over_budget(Get(v, "base_price", 0), preferences.max_budget) THEN FALSE
    ELSE IF Get(v, "base_price", 0) < preferences.min_budget THEN FALSE
    ELSE IF ~InList(Get(v, "vehicle_type", "None"), preferences.vehicle_types)
         THEN FALSE
    ELSE IF Get(v, "seats", 5) < preferences.min_seats THEN FALSE
    ELSE IF preferences.needs_awd /\ ~Get(v, "awd", FALSE) THEN FALSE
    ELSE IF /\ preferences.needs_towing
            /\ Get(v, "towing_capacity_kg", 0) < preferences.min_towing_kg
         THEN FALSE
    ELSE IF InList(Get(v, "brand", "None"), preferences.excluded_brands)
         THEN FALSE
    ELSE TRUE

\* filtered.append(v)
KeepDedup(kept, v) ==
    IF \E k \in 1..Len(kept) : Get(kept[k], "name", "") = Get(v, "name", "")
    THEN kept ELSE Append(kept, v)

keep(kept, v) == Append(kept, v)

RECURSIVE filter_loop(_, _, _)
\* the loop of filter_vehicles over the vehicles still to visit
filter_loop(kept, rest, preferences) ==
    IF rest = <<>> THEN kept
    ELSE filter_loop(IF passes_filter(Head(rest), preferences)
                     THEN keep(kept, Head(rest)) ELSE kept,
                     Tail(rest), preferences)

\* filter_vehicles(vehicles, preferences)
filter_vehicles(vehicles, preferences) ==
    filter_loop(<<>>, vehicles, preferences)

-----------------------------------------------------------------------------
(* Powertrain advisor *)

\* a rule list that holds the work-charging rule alone
PowertrainRulesWorkOnly(preferences) ==
    << IF preferences.work_charging_available
       THEN [ev |-> 2, phev |-> 0,
             reasons_ev |-> <<"Work charging available">>,
             reasons_phev |-> <<>>]
       ELSE [ev |-> 0, phev |-> 0, reasons_ev |-> <<>>, reasons_phev |-> <<>>] >>

\* the points and reasons the five rules of recommend_powertrain add, in the
\* order the code applies them
powertrain_rules(preferences) ==
    << IF preferences.daily_commute_km <= 50
       THEN [ev |-> 3, phev |-> 2,
             reasons_ev |-> <<"Short commute easily covered by EV">>,
             reasons_phev |-> <<>>]
       ELSE IF preferences.daily_commute_km <= 100
       THEN [ev |-> 2, phev |-> 2, reasons_ev |-> <<>>, reasons_phev |-> <<>>]
       ELSE [ev |-> 0, phev |-> 3, reasons_ev |-> <<>>,
             reasons_phev |-> <<"Long commute benefits from PHEV flexibility">>],
       IF preferences.long_trips_frequency = "never"
       THEN [ev |-> 3, phev |-> 0, reasons_ev |-> <<"No long trips needed">>,
             reasons_phev |-> <<>>]
       ELSE IF preferences.long_trips_frequency = "rarely"
       THEN [ev |-> 2, phev |-> 2, reasons_ev |-> <<>>, reasons_phev |-> <<>>]
       ELSE IF preferences.long_trips_frequency = "monthly"
       THEN [ev |-> 0, phev |-> 3, reasons_ev |-> <<>>,
             reasons_phev |-> <<"Regular long trips easier with PHEV">>]
       ELSE [ev |-> 0, phev |-> 4, reasons_ev |-> <<>>,
             reasons_phev |-> <<"Frequent long trips - PHEV recommended">>],
       IF preferences.home_charging_available
       THEN IF preferences.home_charging_type = "level2"
            THEN [ev |-> 4, phev |-> 0,
                  reasons_ev |-> <<"Level 2 home charging available">>,
                  reasons_phev |-> <<>>]
            ELSE [ev |-> 2, phev |-> 1, reasons_ev |-> <<>>,
                  reasons_phev |-> <<>>]
       ELSE [ev |-> 0, phev |-> 4, reasons_ev |-> <<>>,
             reasons_phev |-> <<"No home charging - PHEV more flexible">>],
       IF preferences.work_charging_available
       THEN [ev |-> 2, phev |-> 0,
             reasons_ev |-> <<"Work charging available">>,
             reasons_phev |-> <<>>]
       ELSE [ev |-> 0, phev |-> 0, reasons_ev |-> <<>>, reasons_phev |-> <<>>],
       IF preferences.zero_emissions_priority >= 4
       THEN [ev |-> 3, phev |-> 0,
             reasons_ev |-> <<"Strong preference for zero emissions">>,
             reasons_phev |-> <<>>]
       ELSE IF preferences.zero_emissions_priority <= 2
       THEN [ev |-> 0, phev |-> 2, reasons_ev |-> <<>>, reasons_phev |-> <<>>]
       ELSE [ev |-> 0, phev |-> 0, reasons_ev |-> <<>>, reasons_phev |-> <<>>] >>

\* scores and reasons assigned by each rule instead of added to
ApplyRulesOverwrite(acc, rules) ==
    IF rules = <<>> THEN acc ELSE rules[Len(rules)]

RECURSIVE apply_rules(_, _)
\* the running scores and reason lists after the rules of the list `rules`
apply_rules(acc, rules) ==
    IF rules = <<>> THEN acc
    ELSE apply_rules(
            [ev   |-> acc.ev + Head(rules).ev,
             phev |-> acc.phev + Head(rules).phev,
             reasons_ev   |-> acc.reasons_ev \o Head(rules).reasons_ev,
             reasons_phev |-> acc.reasons_phev \o Head(rules).reasons_phev],
            Tail(rules))

\* a decision in which a lead of exactly 3 already counts as High
DecideMarginInclusive(ev_score, phev_score) ==
    IF ev_score >= phev_score + 3
    THEN [recommendation |-> "EV", confidence |-> "High"]
    ELSE IF phev_score >= ev_score + 3
    THEN [recommendation |-> "PHEV", confidence |-> "High"]
    ELSE IF ev_score > phev_score
    THEN [recommendation |-> "EV", confidence |-> "Medium"]
    ELSE IF phev_score > ev_score
    THEN [recommendation |-> "PHEV", confidence |-> "Medium"]
    ELSE [recommendation |-> "Either", confidence |-> "Low"]

\* the decision of recommend_powertrain from the two scores
decide_powertrain(ev_score, phev_score) ==
    IF ev_score > phev_score + 3
    THEN [recommendation |-> "EV", confidence |-> "High"]
    ELSE IF phev_score > ev_score + 3
    THEN [recommendation |-> "PHEV", confidence |-> "High"]
    ELSE IF ev_score > phev_score
    THEN [recommendation |-> "EV", confidence |-> "Medium"]
    ELSE IF phev_score > ev_score
    THEN [recommendation |-> "PHEV", confidence |-> "Medium"]
    ELSE [recommendation |-> "Either", confidence |-> "Low"]

\* recommend_powertrain(preferences); the percentages are in tenths
recommend_powertrain(preferences, up) ==
    LET sums == apply_rules([ev |-> 0, phev |-> 0, reasons_ev |-> <<>>,
                             reasons_phev |-> <<>>],
                            powertrain_rules(preferences))
        total == sums.ev + sums.phev
        decision == decide_powertrain(sums.ev, sums.phev)
    IN  [recommendation  |-> decision.recommendation,
         confidence      |-> decision.confidence,
         ev_score        |-> sums.ev,
         phev_score      |-> sums.phev,
         ev_percentage   |-> IF total > 0
                             THEN round_tenths(sums.ev * 1000, total, up)
                             ELSE 500,
         phev_percentage |-> IF total > 0
                             THEN round_tenths(sums.phev * 1000, total, up)
                             ELSE 500,
         reasons_ev      |-> sums.reasons_ev,
         reasons_phev    |-> sums.reasons_phev]

-----------------------------------------------------------------------------
(* Recommendation pipeline of main() *)

\* the sort key of an entry of scored_vehicles
sort_key(entry) == entry.score.final_score

RECURSIVE InsertUnstable(_, _)
\* an insertion that puts x before the entries of an equal key
InsertUnstable(sorted, x) ==
    IF sorted = <<>> THEN <<x>>
    ELSE IF sort_key(Head(sorted)) > sort_key(x)
    THEN <<Head(sorted)>> \o InsertUnstable(Tail(sorted), x)
    ELSE <<x>> \o sorted

RECURSIVE insert_desc(_, _)
\* x put into the descending list `sorted`, after every entry whose key is
\* not smaller: list.sort is stable, also with reverse=True
insert_desc(sorted, x) ==
    IF sorted = <<>> THEN <<x>>
    ELSE IF sort_key(Head(sorted)) >= sort_key(x)
    THEN <<Head(sorted)>> \o insert_desc(Tail(sorted), x)
    ELSE <<x>> \o sorted

RECURSIVE sort_desc(_, _)
\* scored_vehicles.sort(key=lambda x: x['score']['final_score'], reverse=True)
\* as a stable insertion sort: `done` is sorted, `rest` is still to insert
sort_desc(done, rest) ==
    IF rest = <<>> THEN done
    ELSE sort_desc(insert_desc(done, Head(rest)), Tail(rest))

-----------------------------------------------------------------------------
(* Inputs *)

\* the lists of at most n elements of S
SeqsUpTo(S, n) == UNION {[1..k -> S] : k \in 0..n}

\* what a call returned
Returned(x) == [exc |-> "none", value |-> x]

\* the longest catalog
MaxCatalogLen == 3

\* the longest sequence of direct calls of the core functions
MaxCalls == 3

\* entries of the static catalog of load_vehicle_database, with the keys the
\* core reads (rates and ratings in tenths)
tesla_model_3_sr ==
    [name |-> "Tesla Model 3 Standard Range", brand |-> "Tesla",
     powertrain |-> "EV", vehicle_type |-> "sedan", base_price |-> 40240,
     range_km |-> 438, dc_charging_kw |-> 170, zero_to_100_kmh |-> 61,
     kwh_per_100km |-> 137, cargo_liters |-> 561,
     autopilot_available |-> TRUE, ota_updates |-> TRUE, heat_pump |-> TRUE,
     v2l_capable |-> FALSE, v2h_capable |-> FALSE,
     made_in_north_america |-> TRUE, reliability_score |-> 35, seats |-> 5,
     awd |-> FALSE, towing_capacity_kg |-> 0, safety_rating_ncap |-> 50]

polestar_2 ==
    [name |-> "Polestar 2 Long Range", brand |-> "Polestar",
     powertrain |-> "EV", vehicle_type |-> "sedan", base_price |-> 51000,
     range_km |-> 551, dc_charging_kw |-> 205, zero_to_100_kmh |-> 74,
     kwh_per_100km |-> 168, cargo_liters |-> 405, v2l_capable |-> FALSE,
     v2h_capable |-> FALSE, reliability_score |-> 43, seats |-> 5,
     awd |-> FALSE, towing_capacity_kg |-> 1500, safety_rating_ncap |-> 50]

polestar_2_sr ==
    [name |-> "Polestar 2 Standard Range", brand |-> "Polestar",
     powertrain |-> "EV", vehicle_type |-> "sedan", base_price |-> 44900,
     range_km |-> 418, dc_charging_kw |-> 135, zero_to_100_kmh |-> 62,
     kwh_per_100km |-> 165, cargo_liters |-> 405,
     autopilot_available |-> FALSE, ota_updates |-> TRUE, heat_pump |-> TRUE,
     v2l_capable |-> FALSE, v2h_capable |-> FALSE,
     made_in_north_america |-> FALSE, reliability_score |-> 38, seats |-> 5,
     awd |-> FALSE, towing_capacity_kg |-> 0, safety_rating_ncap |-> 50]

honda_crv_phev ==
    [name |-> "Honda CR-V Plug-in Hybrid", brand |-> "Honda",
     powertrain |-> "PHEV", vehicle_type |-> "suv", base_price |-> 47195,
     range_km |-> 60, dc_charging_kw |-> 0, zero_to_100_kmh |-> 75,
     kwh_per_100km |-> 185, l_per_100km |-> 65, cargo_liters |-> 587,
     autopilot_available |-> FALSE, ota_updates |-> FALSE,
     heat_pump |-> FALSE, v2l_capable |-> FALSE, v2h_capable |-> FALSE,
     made_in_north_america |-> TRUE, reliability_score |-> 45, seats |-> 5,
     awd |-> TRUE, towing_capacity_kg |-> 0, safety_rating_ncap |-> 50]

mazda_cx90_phev ==
    [name |-> "Mazda CX-90 PHEV", brand |-> "Mazda",
     powertrain |-> "PHEV", vehicle_type |-> "suv", base_price |-> 47445,
     range_km |-> 42, dc_charging_kw |-> 0, zero_to_100_kmh |-> 59,
     kwh_per_100km |-> 190, l_per_100km |-> 84, cargo_liters |-> 453,
     autopilot_available |-> FALSE, ota_updates |-> FALSE,
     heat_pump |-> FALSE, v2l_capable |-> FALSE, v2h_capable |-> FALSE,
     made_in_north_america |-> TRUE, reliability_score |-> 40, seats |-> 7,
     awd |-> TRUE, towing_capacity_kg |-> 2268, safety_rating_ncap |-> 50]

\* an entry as fetch_ev_list of the importer writes it: no price, body type
\* or brand
scraped_entry ==
    [name |-> "Imported EV", url |-> "https://ev-database.org/car/1",
     powertrain |-> "BEV"]

\* a record with no key at all
bare_entry == EmptyDict

\* evdb_sync.json absent, and holding a list of entries
NoFile == [present |-> FALSE]

FileOf(entries) == [present |-> TRUE, entries |-> entries]

\* the memo of load_vehicle_database before the first call: nothing held
\* for either value of use_sync
EmptyLoadCache == [use_sync \in BOOLEAN |-> NoValue]

\* the static list of load_vehicle_database, two of its entries standing for
\* all of them
StaticCatalog == <<tesla_model_3_sr, polestar_2>>

\* str.strip() on the names of the model: the name without the whitespace
\* around it
strip(name) ==
    CASE name = " tesla model 3 standard range " ->
            "tesla model 3 standard range"
      [] name = "IMPORTED EV "                   -> "IMPORTED EV"
      [] name = "  "                             -> ""
      [] OTHER                                   -> name

\* str.lower() on the names of the model
lower(name) ==
    CASE name = "Tesla Model 3 Standard Range" ->
            "tesla model 3 standard range"
      [] name = "Polestar 2 Long Range"        -> "polestar 2 long range"
      [] name = "Imported EV"                  -> "imported ev"
      [] name = "IMPORTED EV"                  -> "imported ev"
      [] OTHER                                 -> name

\* existing_names = {v.get("name", "").strip().lower() for v in vehicles_data}
existing_names_of(vehicles_data) ==
    {lower(strip(Get(vehicles_data[k], "name", ""))) :
        k \in 1..Len(vehicles_data)}

RECURSIVE merge_loop(_, _, _, _, _)
\* the loop over sync_list: the state after the entries of `rest`
merge_loop(vehicles_data, existing_names, added, skipped, rest) ==
    IF rest = <<>>
    THEN [vehicles_data |-> vehicles_data, added |-> added,
          skipped |-> skipped]
    ELSE LET entry == Head(rest)
             name  == strip(Get(entry, "name", ""))
         IN  IF name = ""
             THEN merge_loop(vehicles_data, existing_names, added, skipped,
                             Tail(rest))
             ELSE IF lower(name) \in existing_names
             THEN merge_loop(vehicles_data, existing_names, added,
                             skipped + 1, Tail(rest))
             ELSE merge_loop(Append(vehicles_data, entry),
                             existing_names \cup {lower(name)}, added + 1,
                             skipped, Tail(rest))

\* the body of load_vehicle_database(use_sync) when the file is `file`
load_vehicle_database(use_sync, file) ==
    IF use_sync /\ file.present
    THEN merge_loop(StaticCatalog, existing_names_of(StaticCatalog), 0, 0,
                    file.entries)
    ELSE [vehicles_data |-> StaticCatalog, added |-> 0, skipped |-> 0]

\* @st.cache_data load_vehicle_database: the memo after a call with
\* use_sync; the body runs only when the memo holds nothing for use_sync
cached_load(cache, use_sync, file) ==
    IF cache[use_sync].exc = "none"
    THEN cache
    ELSE [cache EXCEPT
            ![use_sync] = Returned(load_vehicle_database(use_sync, file))]

CatalogSamples ==
    {tesla_model_3_sr, polestar_2, polestar_2_sr, honda_crv_phev,
     mazda_cx90_phev, scraped_entry}

-----------------------------------------------------------------------------
(* Direct calls of the core functions *)

\* calculate_incentive(vehicle, region)
CallCalculateIncentive ==
    /\ pc = "ready"
    /\ Len(calls) < MaxCalls
    /\ incentives_cache' = get_incentives_data(incentives_cache)
    /\ incentive' = Returned(calculate_incentive(vehicle, region,
                                                 incentives_cache'.value))
    /\ calls' = Append(calls, "calculate_incentive")
    /\ UNCHANGED <<sync_vars, ties_up, pc, catalog, prefs, vehicle, region, tco, first_tco,
                   score, filtered, scored_vehicles, pt_rec>>

\* calculate_tco(vehicle, prefs): preferences.region.value is read before
\* calculate_incentive is entered
CallCalculateTco ==
    /\ pc = "ready"
    /\ Len(calls) < MaxCalls
    /\ incentives_cache' = IF prefs.region.is_enum
                           THEN get_incentives_data(incentives_cache)
                           ELSE incentives_cache
    /\ tco' = calculate_tco(vehicle, prefs, incentives_cache'.value)
    /\ first_tco' = IF first_tco = NoValue THEN tco' ELSE first_tco
    /\ calls' = Append(calls, "calculate_tco")
    /\ UNCHANGED <<sync_vars, ties_up, pc, catalog, prefs, vehicle, region, incentive, score,
                   filtered, scored_vehicles, pt_rec>>

\* score_vehicle(vehicle, prefs)
CallScoreVehicle ==
    /\ pc = "ready"
    /\ Len(calls) < MaxCalls
    /\ score' = Returned(score_vehicle(vehicle, prefs, ties_up))
    /\ calls' = Append(calls, "score_vehicle")
    /\ UNCHANGED <<sync_vars, ties_up, pc, catalog, prefs, vehicle, region, incentives_cache,
                   incentive, tco, first_tco, filtered, scored_vehicles,
                   pt_rec>>

\* filter_vehicles(catalog, prefs)
CallFilterVehicles ==
    /\ pc = "ready"
    /\ Len(calls) < MaxCalls
    /\ filtered' = Returned(filter_vehicles(catalog, prefs))
    /\ calls' = Append(calls, "filter_vehicles")
    /\ UNCHANGED <<sync_vars, ties_up, pc, catalog, prefs, vehicle, region, incentives_cache,
                   incentive, tco, first_tco, score, scored_vehicles, pt_rec>>

\* recommend_powertrain(prefs)
CallRecommendPowertrain ==
    /\ pc = "ready"
    /\ Len(calls) < MaxCalls
    /\ pt_rec' = Returned(recommend_powertrain(prefs, ties_up))
    /\ calls' = Append(calls, "recommend_powertrain")
    /\ UNCHANGED <<sync_vars, ties_up, pc, catalog, prefs, vehicle, region, incentives_cache,
                   incentive, tco, first_tco, score, filtered,
                   scored_vehicles>>

\* load_vehicle_database(use_sync) as main() calls it, with the sync file
\* as it is at the call
CallLoadVehicleDatabase ==
    \E use_sync \in BOOLEAN :
        /\ pc = "ready"
        /\ Len(calls) < MaxCalls
        /\ load_cache' = cached_load(load_cache, use_sync, sync_file)
        /\ loaded' = [exc |-> "none", value |-> load_cache'[use_sync].value,
                      use_sync |-> use_sync, sync_file |-> sync_file]
        /\ calls' = Append(calls, "load_vehicle_database")
        /\ UNCHANGED <<ties_up, pc, catalog, prefs, vehicle, region,
                       incentives_cache, incentive, tco, first_tco, score,
                       filtered, scored_vehicles, pt_rec, sync_file>>

\* no call made yet, nothing cached
NothingCalled ==
    /\ sync_file = NoFile
    /\ load_cache = EmptyLoadCache
    /\ loaded = NoValue
    /\ incentives_cache = EmptyCache
    /\ incentive = NoValue
    /\ tco = NoValue
    /\ first_tco = NoValue
    /\ calls = <<>>
    /\ score = NoValue
    /\ filtered = NoValue
    /\ scored_vehicles = <<>>
    /\ pt_rec = NoValue

-----------------------------------------------------------------------------
(* calculate_incentive called on one vehicle record and one region code *)

\* vehicle records with each key the incentive reads present or missing;
\* the prices sit on, just above and below the two ceilings
IncentiveVehicles ==
    {a @@ b @@ c @@ d :
        a \in Opt("powertrain", {"EV", "PHEV", "BEV", "None"}),
        b \in Opt("vehicle_type", {"sedan", "hatchback", "suv", "None"}),
        c \in Opt("base_price", {40240, 55000, 55001, 80000, 80001}),
        d \in Opt("made_in_north_america", {TRUE, FALSE})}

InitIncentive ==
    /\ pc = "ready"
    /\ catalog = <<>>
    /\ prefs = DefaultPreferences
    /\ vehicle \in IncentiveVehicles
    /\ region \in RegionCodes
    /\ ties_up = FALSE
    /\ NothingCalled

NextIncentive == CallCalculateIncentive

SpecIncentive == InitIncentive /\ [][NextIncentive]_vars

\* the table amount for the vehicle's powertrain in the region, 0 without a
\* row, and the ceiling that applies to the vehicle's body type
TableAmount(v, code) ==
    IF code \in DOMAIN IncentivesData
    THEN IF Get(v, "powertrain", "EV") = "EV"
         THEN IncentivesData[code].ev ELSE IncentivesData[code].phev
    ELSE 0

PriceCeiling(v) ==
    IF Get(v, "vehicle_type", "sedan") \in {"sedan", "hatchback"}
    THEN 55000 ELSE 80000

\* C5: for every vehicle record and every region code, known or unknown,
\* calculate_incentive returns an amount >= 0.
C5_IncentiveNonNegative ==
    incentive.exc = "none" => incentive.value >= 0

\* C5 witness: a call for a record with no price and no origin flag in a
\* region with a row returned half the table amount
C5_Witness ==
    /\ incentive.exc = "none"
    /\ region = "usa_new_york"
    /\ DOMAIN vehicle = {"powertrain"}
    /\ vehicle.powertrain = "PHEV"
    /\ incentive.value = Cents(2125)

\* C6: in a region whose code starts with "usa" the incentive is 0 above
\* the ceiling of the body type (55000 for sedan, hatchback and a record with
\* no body type, 80000 otherwise), whatever the powertrain and the origin
\* flag; exactly at the ceiling the vehicle keeps the amount of its origin
\* branch.
C6_FederalPriceCap ==
    (incentive.exc = "none" /\ startswith_usa(region)) =>
        LET price == Get(vehicle, "base_price", 0)
            kept  == IF Get(vehicle, "made_in_north_america", FALSE)
                     THEN Cents(TableAmount(vehicle, region))
                     ELSE Cents(TableAmount(vehicle, region)) \div 2
        IN  /\ price > PriceCeiling(vehicle) => incentive.value = 0
            /\ price = PriceCeiling(vehicle) => incentive.value = kept

\* C6 witness: a record with no body type priced just above 55000, made in
\* North America, got nothing in California
C6_Witness ==
    /\ incentive.exc = "none"
    /\ region = "usa_california"
    /\ "vehicle_type" \notin DOMAIN vehicle
    /\ Get(vehicle, "base_price", 0) = 55001
    /\ Get(vehicle, "made_in_north_america", FALSE)
    /\ incentive.value = 0

\* the codes of the federal family among RegionCodes
FederalFamily ==
    {"usa_federal", "usa_california", "usa_colorado", "usa_new_jersey",
     "usa_new_york", "usa_texas", "usa_puerto_rico"}

\* C16: with A the table amount of the region for the vehicle's powertrain
\* (the ev amount for EV or no powertrain, the phev amount otherwise, 0
\* without a row), calculate_incentive returns, in a region of the federal
\* family, 0 above the price ceiling, else A/2 when the origin flag is false
\* or missing, else A; in every other region exactly A.
C16_IncentiveReference ==
    incentive.exc = "none" =>
        LET A     == Cents(TableAmount(vehicle, region))
            price == Get(vehicle, "base_price", 0)
        IN  incentive.value
              = IF region \in FederalFamily
                THEN IF price > PriceCeiling(vehicle) THEN 0
                     ELSE IF ~Get(vehicle, "made_in_north_america", FALSE)
                     THEN A \div 2
                     ELSE A
                ELSE A

\* C16 witness: outside the federal family a vehicle priced above both
\* ceilings and without the origin flag got the whole table amount
C16_Witness ==
    /\ incentive.exc = "none"
    /\ region = "canada_quebec"
    /\ Get(vehicle, "base_price", 0) = 80001
    /\ "made_in_north_america" \notin DOMAIN vehicle
    /\ incentive.value = Cents(12000)

-----------------------------------------------------------------------------
(* score_vehicle called on one vehicle record and one preferences value *)

\* the five feature flags all set, or all missing
TechFlags ==
    {EmptyDict,
     [autopilot_available |-> TRUE, ota_updates |-> TRUE, heat_pump |-> TRUE,
      v2l_capable |-> TRUE, v2h_capable |-> TRUE]}

\* vehicle records with each key the score reads present or missing; the
\* ratings are within 0..5 (0..50 tenths)
ScoreVehicles ==
    {a @@ b @@ c @@ d @@ e @@ f @@ g @@ h @@ i :
        a \in Opt("range_km", {74, 250}),
        b \in Opt("dc_charging_kw", {250}),
        c \in Opt("kwh_per_100km", {140}),
        d \in Opt("zero_to_100_kmh", {35}),
        e \in Opt("safety_rating_ncap", {0, 50}),
        f \in Opt("reliability_score", {0, 35, 50}),
        g \in Opt("cargo_liters", {600}),
        h \in TechFlags,
        i \in Opt("brand", {"Tesla"})}

CategorySet == {Categories[k] : k \in 1..Len(Categories)}

\* priority weights within 0..5: all equal, a single category weighted, a
\* single category at 0, and the defaults of the dataclass
WeightVectors ==
    {[c \in CategorySet |-> w] : w \in 0..5}
    \cup {[c \in CategorySet |-> IF c = d THEN w ELSE 0] :
            d \in CategorySet, w \in {1, 5}}
    \cup {[c \in CategorySet |-> IF c = d THEN 0 ELSE 5] : d \in CategorySet}
    \cup {category_weight(DefaultPreferences)}

\* the preferences p with the eight category weights w
WithWeights(p, w) ==
    [p EXCEPT !.range_priority          = w["Range"],
              !.charging_speed_priority = w["Charging"],
              !.efficiency_priority     = w["Efficiency"],
              !.acceleration_priority   = w["Performance"],
              !.safety_priority         = w["Safety"],
              !.reliability_priority    = w["Reliability"],
              !.cargo_priority          = w["Cargo"],
              !.tech_features_priority  = w["Tech"]]

ScorePreferences ==
    {[WithWeights(DefaultPreferences, w) EXCEPT !.preferred_brands = b] :
        w \in WeightVectors, b \in {<<>>, <<"Tesla">>}}

InitScore ==
    /\ pc = "ready"
    /\ catalog = <<>>
    /\ prefs \in ScorePreferences
    /\ vehicle \in ScoreVehicles
    /\ region = "usa_federal"
    /\ ties_up \in BOOLEAN
    /\ NothingCalled

NextScore == calls = <<>> /\ CallScoreVehicle

SpecScore == InitScore /\ [][NextScore]_vars

\* C1: for every vehicle record, also with optional fields missing, and
\* every preferences value with weights in 0..5 and ratings in 0..5, the
\* final_score of score_vehicle is within [0, 100] (0..1000 tenths).
C1_FinalScoreInRange ==
    score.exc = "none" =>
        score.value.final_score >= 0 /\ score.value.final_score <= 1000

\* C1 witness: a preferred-brand record with missing fields whose weighted
\* quotient is already 100 was scored 100, the bonus notwithstanding
C1_Witness ==
    /\ score.exc = "none"
    /\ "dc_charging_kw" \notin DOMAIN vehicle
    /\ score.value.brand_bonus = 5
    /\ score.value.category_scores.Range = 100
    /\ prefs.range_priority = 5
    /\ prefs.charging_speed_priority = 0
    /\ score.value.final_score = 1000

\* C11: when at least one priority weight is not 0, a vehicle whose eight
\* category sub-scores are all 10 and whose brand is a preferred one gets the
\* final_score 100 exactly: the bonus of 5 does not lift it above 100.
C11_PerfectPreferredIs100 ==
    (/\ score.exc = "none"
     /\ \A c \in CategorySet : score.value.category_scores[c] = 100
     /\ score.value.brand_bonus = 5
     /\ \E c \in CategorySet : category_weight(prefs)[c] # 0)
        => score.value.final_score = 1000

\* C11 witness: a vehicle of a preferred brand with 10 in every category was
\* scored 100 under weights of which only one is not 0
C11_Witness ==
    /\ score.exc = "none"
    /\ \A c \in CategorySet : score.value.category_scores[c] = 100
    /\ score.value.brand_bonus = 5
    /\ prefs.cargo_priority = 1
    /\ prefs.range_priority = 0
    /\ score.value.final_score = 1000

\* the exact value of the score formula over max_possible, in tenths:
\* min(100, total_score / max_possible x 100 + bonus) x max_possible
ExactScoreTimesMax(r, p) ==
    LET weights == category_weight(p)
        t == SumOver([c \in CategorySet |->
                         r.category_scores[c] * weights[c]], Categories)
        m == SumOver([c \in CategorySet |-> 10 * weights[c]], Categories)
    IN  [max_possible |-> m,
         value |-> Min(1000 * m, 100 * t + 10 * r.brand_bonus * m)]

\* the bonus of a vehicle: 5 exactly when its brand is a preferred one
BonusOf(v, p) ==
    IF /\ "brand" \in DOMAIN v
       /\ \E k \in 1..Len(p.preferred_brands) : p.preferred_brands[k] = v.brand
    THEN 5 ELSE 0

\* C22 as stated: final_score = min(100, sum(sub-score x weight)
\* / sum(10 x weight) x 100 + bonus), the bonus being 5 exactly when the
\* brand of the vehicle is in the preferred set; when every weight is 0 the
\* quotient term is 0 and the result is 0 without the bonus and 5 with it.
C22_FinalScoreExact ==
    score.exc = "none" =>
        LET r == score.value
            e == ExactScoreTimesMax(r, prefs)
        IN  /\ r.brand_bonus = BonusOf(vehicle, prefs)
            /\ IF e.max_possible = 0
               THEN r.final_score = 10 * r.brand_bonus
               ELSE r.final_score * e.max_possible = e.value

\* C22 amended: final_score is min(100, sum(sub-score x weight)
\* / sum(10 x weight) x 100 + bonus) rounded to one decimal, so it lies
\* within 0.05 of that value; the bonus is 5 exactly when the brand of the
\* vehicle is in the preferred set; when every weight is 0 the quotient
\* term is 0 and the result is 0 without the bonus and 5 with it.
C22_FinalScoreRounded ==
    score.exc = "none" =>
        LET r == score.value
            e == ExactScoreTimesMax(r, prefs)
        IN  /\ r.brand_bonus = BonusOf(vehicle, prefs)
            /\ IF e.max_possible = 0
               THEN r.final_score = 10 * r.brand_bonus
               ELSE 2 * Abs(r.final_score * e.max_possible - e.value)
                        <= e.max_possible

\* C22 witness: a vehicle of a preferred brand whose score, bonus included,
\* stays under 100 and is not a whole number of tenths before rounding
C22_Witness ==
    /\ score.exc = "none"
    /\ score.value.brand_bonus = 5
    /\ score.value.final_score < 1000
    /\ LET e == ExactScoreTimesMax(score.value, prefs)
       IN  /\ e.max_possible > 0
           /\ score.value.final_score * e.max_possible # e.value

-----------------------------------------------------------------------------
(* score_vehicle and filter_vehicles at the thresholds of the ladders *)

\* the five feature flags score_vehicle reads
FeatureFlags ==
    {"autopilot_available", "ota_updates", "heat_pump", "v2l_capable",
     "v2h_capable"}

\* every combination of the five flags: the flags of on are true, the
\* others missing, or present and false
FlagRecords ==
    {[f \in on |-> TRUE] : on \in SUBSET FeatureFlags}
    \cup {[f \in FeatureFlags |-> f \in on] : on \in SUBSET FeatureFlags}

\* records with one scored key, at values on both sides of every threshold
\* of its ladder (rates, times and ratings in tenths)
LadderKeys ==
    Opt("range_km", {0, 37, 38, 74, 75, 99, 100, 149, 150, 249, 250})
    \cup Opt("dc_charging_kw", {0, 99, 100, 149, 150, 199, 200, 249, 250})
    \cup Opt("kwh_per_100km", {140, 141, 160, 161, 180, 181, 200, 201})
    \cup Opt("zero_to_100_kmh", {35, 36, 45, 46, 55, 56, 70, 71})
    \cup Opt("cargo_liters",
             {0, 299, 300, 301, 449, 450, 451, 452, 599, 600, 602})
    \cup Opt("safety_rating_ncap", {0, 25, 50})
    \cup Opt("reliability_score", {0, 35, 50})
    \cup FlagRecords

\* the keys filter_vehicles reads, so that the default preferences keep
\* the record
sedan_base == [vehicle_type |-> "sedan", base_price |-> 40000]

LadderVehicles == {k @@ b : k \in LadderKeys, b \in {EmptyDict, sedan_base}}

\* daily commutes of 0, 25 and 50 km; cargo minimums of 0, 300 and 301 l
LadderPreferences ==
    {[DefaultPreferences EXCEPT !.daily_commute_km = km,
                                !.min_cargo_liters = l] :
        km \in {0, 25, 50}, l \in {0, 300, 301}}

InitLadders ==
    /\ pc = "ready"
    /\ vehicle \in LadderVehicles
    /\ catalog = <<vehicle>>
    /\ prefs \in LadderPreferences
    /\ region = "usa_federal"
    /\ ties_up = FALSE
    /\ NothingCalled

NextLadders == CallScoreVehicle \/ CallFilterVehicles

SpecLadders == InitLadders /\ [][NextLadders]_vars

\* C23: for ratings within 0..5 score_vehicle returns a sub-score map with
\* exactly the eight categories Range, Charging, Efficiency, Performance,
\* Safety, Reliability, Cargo and Tech, each value within 0..10 (0..100
\* tenths); no combination of the five feature flags takes Tech above 10.
C23_SubScoresInRange ==
    score.exc = "none" =>
        LET scores == score.value.category_scores
        IN  /\ DOMAIN scores
                  = {"Range", "Charging", "Efficiency", "Performance",
                     "Safety", "Reliability", "Cargo", "Tech"}
            /\ \A c \in DOMAIN scores : scores[c] \in 0..100
            /\ scores.Tech <= 100

\* C23 witness: a record with all five flags set was scored 10 for Tech
C23_Witness ==
    /\ score.exc = "none"
    /\ \A f \in FeatureFlags : Get(vehicle, f, FALSE)
    /\ score.value.category_scores.Tech = 100

\* 2 points for each threshold of a ladder the value v meets
Rungs(thresholds, Meets(_)) ==
    20 * Cardinality({t \in thresholds : Meets(t)})

\* C24: Range is 10/8/6/4 when the range is >= 5/3/2/1.5 times the daily
\* commute, else 2 (a daily commute of 0 gives 10); Charging is 10/8/6/4
\* for DC power >= 250/200/150/100, else 2; Efficiency is 10/8/6/4 for
\* consumption <= 14/16/18/20, else 2; Performance is 10/8/6/4 for a 0-100
\* time <= 3.5/4.5/5.5/7.0, else 2; Cargo is 10/8/6 for cargo >= 2/1.5/1
\* times the requested minimum, else 4; every threshold is inclusive.
C24_LadderScores ==
    score.exc = "none" =>
        LET scores == score.value.category_scores
            rng    == Get(vehicle, "range_km", 0)
            dc     == Get(vehicle, "dc_charging_kw", 0)
            kwh    == Get(vehicle, "kwh_per_100km", 200)
            accel  == Get(vehicle, "zero_to_100_kmh", 80)
            cargo  == Get(vehicle, "cargo_liters", 400)
            RangeMeets(half)  == 2 * rng >= half * prefs.daily_commute_km
            DcMeets(t)        == dc >= t
            KwhMeets(t)       == kwh <= t
            AccelMeets(t)     == accel <= t
            CargoMeets(half)  == 2 * cargo >= half * prefs.min_cargo_liters
        IN  /\ scores.Range = 20 + Rungs({10, 6, 4, 3}, RangeMeets)
            /\ scores.Charging = 20 + Rungs({250, 200, 150, 100}, DcMeets)
            /\ scores.Efficiency = 20 + Rungs({140, 160, 180, 200}, KwhMeets)
            /\ scores.Performance = 20 + Rungs({35, 45, 55, 70}, AccelMeets)
            /\ scores.Cargo = 40 + Rungs({4, 3, 2}, CargoMeets)
            /\ prefs.daily_commute_km = 0 => scores.Range = 100

\* C24 witness: a range of exactly 1.5 times a 50 km commute was scored 4
C24_Witness ==
    /\ score.exc = "none"
    /\ prefs.daily_commute_km = 50
    /\ Get(vehicle, "range_km", 0) = 75
    /\ score.value.category_scores.Range = 40

\* C28: min_cargo_liters is not a hard constraint.  Whatever the minimum
\* and the cargo volume, filter_vehicles keeps the vehicle the other rules
\* keep (here the one with a body type) and drops the one they drop, so
\* preferences that differ only in the minimum get the same result; the
\* minimum only lowers the Cargo sub-score, to 4 when the volume is below it.
C28_CargoMinimumOnlyScores ==
    /\ filtered.exc = "none" =>
          filtered.value
            = IF "vehicle_type" \in DOMAIN vehicle THEN catalog ELSE <<>>
    /\ (/\ score.exc = "none"
        /\ Get(vehicle, "cargo_liters", 400) < prefs.min_cargo_liters)
          => score.value.category_scores.Cargo = 40

\* C28 witness: a vehicle of 299 l under a minimum of 300 l was kept by the
\* filter and scored 4 for Cargo
C28_Witness ==
    /\ filtered.exc = "none"
    /\ score.exc = "none"
    /\ Get(vehicle, "cargo_liters", 400) = 299
    /\ prefs.min_cargo_liters = 300
    /\ filtered.value = <<vehicle>>
    /\ score.value.category_scores.Cargo = 40

-----------------------------------------------------------------------------
(* filter_vehicles called on one catalog and one preferences value *)

\* two entries that share a name, and entries the tests tell apart
model_a ==
    [name |-> "Model A", brand |-> "Tesla", vehicle_type |-> "sedan",
     base_price |-> 40000, seats |-> 5, awd |-> FALSE]

model_a_awd ==
    [name |-> "Model A", brand |-> "Tesla", vehicle_type |-> "sedan",
     base_price |-> 45000, seats |-> 5, awd |-> TRUE]

model_b ==
    [name |-> "Model B", brand |-> "Kia", vehicle_type |-> "suv",
     base_price |-> 45000, seats |-> 7, awd |-> TRUE,
     towing_capacity_kg |-> 2000]

model_c ==
    [name |-> "Model C", brand |-> "Kia", vehicle_type |-> "suv",
     base_price |-> 60000]

FilterSamples == {model_a, model_a_awd, model_b, model_c, scraped_entry}

\* vehicle records with each key the filter reads present or missing; the
\* values sit on and next to the thresholds of FilterPreferences
FilterVehicleGrid ==
    {a @@ b @@ c @@ d @@ e @@ f :
        a \in Opt("base_price", {29999, 30000, 55000, 55001}),
        b \in Opt("vehicle_type", {"sedan", "truck"}),
        c \in Opt("seats", {4, 5, 7}),
        d \in Opt("awd", {TRUE, FALSE}),
        e \in Opt("towing_capacity_kg", {1499, 1500}),
        f \in Opt("brand", {"Tesla", "Kia"})}

FilterCatalogs ==
    SeqsUpTo(FilterSamples, MaxCatalogLen)
    \cup {<<v>> : v \in FilterVehicleGrid}

\* preferences that differ in the fields the filter reads; min_budget may
\* exceed max_budget and the list of body types may be empty
FilterPreferences ==
    {[DefaultPreferences EXCEPT !.min_budget = lo, !.vehicle_types = vt,
                                !.min_seats = ms, !.needs_awd = na,
                                !.needs_towing = tow[1],
                                !.min_towing_kg = tow[2],
                                !.excluded_brands = xb] :
        lo \in {0, 30000, 60000},
        vt \in {<<"sedan", "suv">>, <<"sedan">>, <<>>},
        ms \in {5, 6},
        na \in BOOLEAN,
        tow \in {<<FALSE, 0>>, <<FALSE, 1500>>, <<TRUE, 1500>>},
        xb \in {<<>>, <<"Tesla">>}}

InitFilter ==
    /\ pc = "ready"
    /\ catalog \in FilterCatalogs
    /\ prefs \in FilterPreferences
    /\ vehicle = EmptyDict
    /\ region = "usa_federal"
    /\ ties_up = FALSE
    /\ NothingCalled

NextFilter == calls = <<>> /\ CallFilterVehicles

SpecFilter == InitFilter /\ [][NextFilter]_vars

RECURSIVE IsSubsequence(_, _)
\* the list a can be got from the list b by deleting entries of b
IsSubsequence(a, b) ==
    IF a = <<>> THEN TRUE
    ELSE IF b = <<>> THEN FALSE
    ELSE IF Head(a) = Head(b) THEN IsSubsequence(Tail(a), Tail(b))
    ELSE IsSubsequence(a, Tail(b))

\* the number of positions of the list a that hold x
Occurrences(x, a) == Cardinality({k \in 1..Len(a) : a[k] = x})

\* C2: the list filter_vehicles returns is a subsequence of the catalog (only
\* catalog entries, in catalog order, each position at most once), and there
\* is no deduplication: a record that occurs several times in the catalog
\* occurs as often in the result, or not at all.
C2_FilterIsSubsequence ==
    filtered.exc = "none" =>
        /\ IsSubsequence(filtered.value, catalog)
        /\ \A k \in 1..Len(catalog) :
              Occurrences(catalog[k], filtered.value)
                 \in {0, Occurrences(catalog[k], catalog)}

\* C2 witness: two entries of one name and twice the same record, all kept
\* in catalog order, around an entry that was dropped
C2_Witness ==
    /\ catalog = <<model_a, scraped_entry, model_a_awd, model_a>>
        \/ catalog = <<model_a, scraped_entry, model_a>>
    /\ filtered.exc = "none"
    /\ Len(filtered.value) = Len(catalog) - 1
    /\ filtered.value[1] = model_a
    /\ filtered.value[Len(filtered.value)] = model_a

\* C15: filter_vehicles called with an empty list of body types returns
\* what it returns for the single body type sedan.
C15_EmptyTypesFallBack ==
    (filtered.exc = "none" /\ prefs.vehicle_types = <<>>) =>
        filtered.value
          = filter_vehicles(catalog,
                            [prefs EXCEPT !.vehicle_types = <<"sedan">>])

\* the exclusion rules: a vehicle is dropped when any of them holds
Excluded(v, p) ==
    \/ Get(v, "base_price", 0) * 10 > p.max_budget * 11
    \/ Get(v, "base_price", 0) < p.min_budget
    \/ "vehicle_type" \notin DOMAIN v
    \/ \A k \in 1..Len(p.vehicle_types) : p.vehicle_types[k] # v.vehicle_type
    \/ Get(v, "seats", 5) < p.min_seats
    \/ (p.needs_awd /\ ~Get(v, "awd", FALSE))
    \/ (p.needs_towing /\ Get(v, "towing_capacity_kg", 0) < p.min_towing_kg)
    \/ \E k \in 1..Len(p.excluded_brands) :
          "brand" \in DOMAIN v /\ p.excluded_brands[k] = v.brand

\* C3: filter_vehicles returns a catalog vehicle if and only if none of the
\* exclusion rules holds for it; a vehicle priced exactly at max_budget x 1.1
\* is kept, and the towing capacity is ignored unless towing is required.
C3_FilterRules ==
    filtered.exc = "none" =>
        LET Kept(v) == ~Excluded(v, prefs)
        IN  filtered.value = SelectSeq(catalog, Kept)

\* C3 witness: a vehicle priced exactly at max_budget x 1.1, with less than
\* min_towing_kg and towing not required, was returned
C3_Witness ==
    /\ filtered.exc = "none"
    /\ Len(catalog) = 1
    /\ Get(catalog[1], "base_price", 0) * 10 = prefs.max_budget * 11
    /\ ~prefs.needs_towing
    /\ Get(catalog[1], "towing_capacity_kg", 0) < prefs.min_towing_kg
    /\ "seats" \notin DOMAIN catalog[1]
    /\ filtered.value = catalog

-----------------------------------------------------------------------------
(* calculate_tco called, with other calls of the core in between, on one
   vehicle record and one preferences value *)

\* the powertrain of a record with its consumption figures
TcoPowertrains ==
    {EmptyDict,
     [powertrain |-> "EV", kwh_per_100km |-> 137],
     [powertrain |-> "PHEV"],
     [powertrain |-> "PHEV", kwh_per_100km |-> 190, l_per_100km |-> 84]}

TcoVehicles ==
    {a @@ b @@ c @@ d :
        a \in TcoPowertrains,
        b \in Opt("base_price", {40240}),
        c \in Opt("range_km", {20, 25, 30, 60}),
        d \in Opt("made_in_north_america", {TRUE})}
    \cup {tesla_model_3_sr}

\* preferences.region: a Region member, or a plain str carrying a code that
\* is no value of the enumeration
TcoRegions ==
    {RegionMember("usa_california"), RegionMember("portugal"),
     RegionStr("atlantis"), RegionStr("usa_puerto_rico")}

\* preferences with an annual distance of 0 and an ownership of 0 years
\* among them
TcoPreferences ==
    {[DefaultPreferences EXCEPT !.region = r, !.annual_km = km,
                                !.ownership_years = y] :
        r \in TcoRegions, km \in {0, 20000}, y \in {0, 1, 5}}

InitTco ==
    /\ pc = "ready"
    /\ prefs \in TcoPreferences
    /\ vehicle \in TcoVehicles
    /\ catalog = <<vehicle>>
    /\ region = prefs.region.value
    /\ ties_up = FALSE
    /\ NothingCalled

NextTco ==
    \/ CallCalculateTco
    \/ CallCalculateIncentive
    \/ CallScoreVehicle
    \/ CallFilterVehicles
    \/ CallRecommendPowertrain

SpecTco == InitTco /\ [][NextTco]_vars

\* C7: for a region code outside the known codes the incentive is 0 and
\* calculate_tco completes without raising, with the fallback base premium
\* 1500 in the annual insurance cost.
C7_UnknownRegionFallback ==
    prefs.region.value \notin RegionValues =>
        /\ incentive.exc = "none" => incentive.value = 0
        /\ tco # NoValue =>
              /\ tco.exc = "none"
              /\ tco.incentives_total = 0
              /\ tco.annual_insurance_cost
                    = Cents(1500) + Get(vehicle, "base_price", 40000)

\* C8: calculate_tco never raises, for any vehicle record and any
\* preferences value, an ownership of 0 years and an annual distance of 0
\* included.
C8_TcoNeverRaises ==
    (tco # NoValue /\ prefs.region.is_enum) => tco.exc = "none"

\* C9: with an ownership of at least 1 year, calculate_tco raises nothing;
\* cost_per_km is 0 when the annual distance is 0, and is the aggregate TCO
\* divided by (annual distance x years) when the annual distance is positive.
C9_CostPerKm ==
    (tco # NoValue /\ prefs.region.is_enum /\ prefs.ownership_years >= 1) =>
        /\ tco.exc = "none"
        /\ LET distance == prefs.annual_km * prefs.ownership_years
               scale    == distance \div tco.cost_per_km.den
           IN  IF prefs.annual_km = 0
               THEN tco.cost_per_km = [num |-> 0, den |-> 1]
               ELSE /\ tco.cost_per_km.den * scale = distance
                    /\ tco.cost_per_km.num * scale
                          = tco.total_cost_of_ownership

\* C9 witness: a call with an annual distance of 0 over 5 years returned a
\* TCOResult with a positive aggregate and cost_per_km = 0
C9_Witness ==
    /\ tco # NoValue
    /\ prefs.annual_km = 0
    /\ prefs.ownership_years = 5
    /\ tco.exc = "none"
    /\ tco.total_cost_of_ownership > 0
    /\ tco.cost_per_km = [num |-> 0, den |-> 1]

\* C10: two calls of calculate_tco with the same vehicle and preferences,
\* whatever other core calls are made in between, return TCOResults that are
\* equal in every field.
C10_TcoDeterministic ==
    (first_tco # NoValue /\ tco # NoValue) => tco = first_tco

\* C10 witness: calculate_tco, then calculate_incentive, then calculate_tco
\* again, for a vehicle that gets an incentive
C10_Witness ==
    /\ calls = <<"calculate_tco", "calculate_incentive", "calculate_tco">>
    /\ tco.exc = "none"
    /\ tco.incentives_total > 0
    /\ tco = first_tco

\* C14: for the catalog EV of base price 40240, range 438 and 13.7
\* kWh/100km (sedan, made in North America), in usa_california with 20000 km
\* a year and electricity at 0.15, the annual energy cost is
\* (13.7 / 100) x 20000 x 0.15 = 411.0 and the incentive is 9500.
C14_CatalogEvCalifornia ==
    (/\ tco # NoValue
     /\ tco.exc = "none"
     /\ vehicle = tesla_model_3_sr
     /\ prefs.region = RegionMember("usa_california")
     /\ prefs.annual_km = 20000
     /\ prefs.electricity_cost_kwh = 15)
        => /\ tco.annual_fuel_cost = Cents(411)
           /\ tco.incentives_total = Cents(9500)

\* C14 witness: calculate_tco returned for that vehicle in California over
\* 5 years, with a net price of 40240 + 1500 - 9500
C14_Witness ==
    /\ tco # NoValue
    /\ tco.exc = "none"
    /\ vehicle = tesla_model_3_sr
    /\ prefs.region = RegionMember("usa_california")
    /\ prefs.annual_km = 20000
    /\ prefs.ownership_years = 5
    /\ tco.net_purchase_price = Cents(32240)

\* C17: the annual insurance cost is the base premium of the region plus a
\* surcharge proportional to the list price, base price + 1500, that the
\* TCOResult reports as purchase_price: surcharge and list price stand in
\* the same proportion as for the record without any key.
C17_InsuranceOnListPrice ==
    (tco # NoValue /\ tco.exc = "none") =>
        LET ref     == calculate_tco(EmptyDict, prefs, IncentivesData)
            premium == Cents(region_insurance(prefs.region.value))
        IN  (tco.annual_insurance_cost - premium)
                * (ref.purchase_price \div 100)
            = (ref.annual_insurance_cost - premium)
                * (tco.purchase_price \div 100)

\* the electric share the PHEV rule prescribes, in tenths
PhevShare(v, p) ==
    LET electric_range == Get(v, "range_km", 50)
        daily          == p.daily_commute_km
    IN  IF electric_range >= daily THEN 7
        ELSE IF daily <= 2 * electric_range THEN 5
        ELSE 3

\* C18: for a PHEV the electric share is 0.70 when the electric range is at
\* least the daily commute, 0.50 when it is at least half of it, 0.30
\* otherwise, a missing range counting as 50; the annual energy cost is
\* (kWh/100) x share x distance x electricity cost
\* + (L/100) x (1 - share) x distance x fuel cost.
C18_PhevEnergyCost ==
    (/\ tco # NoValue
     /\ tco.exc = "none"
     /\ Get(vehicle, "powertrain", "EV") = "PHEV")
        => LET share == PhevShare(vehicle, prefs)
           IN  tco.annual_fuel_cost * 10000
                  = Get(vehicle, "kwh_per_100km", 180) * share
                        * prefs.annual_km * prefs.electricity_cost_kwh
                    + Get(vehicle, "l_per_100km", 60) * (10 - share)
                        * prefs.annual_km * prefs.gas_cost_liter

\* C18 witness: a PHEV with an electric range of exactly half the daily
\* commute was charged the 0.50 blend
C18_Witness ==
    /\ tco # NoValue
    /\ tco.exc = "none"
    /\ Get(vehicle, "powertrain", "EV") = "PHEV"
    /\ Get(vehicle, "range_km", 50) * 2 = prefs.daily_commute_km
    /\ {"kwh_per_100km", "l_per_100km"} \subseteq DOMAIN vehicle
    /\ prefs.annual_km = 20000
    /\ tco.annual_fuel_cost
          = (vehicle.kwh_per_100km * 5 * 20000 * prefs.electricity_cost_kwh
             + vehicle.l_per_100km * 5 * 20000 * prefs.gas_cost_liter)
            \div 10000

\* the resale percentage of a powertrain
ResalePercent(v) == IF Get(v, "powertrain", "EV") = "EV" THEN 45 ELSE 40

\* C19: in every TCOResult the aggregate is depreciation + total fuel
\* + total maintenance + total insurance + total registration, each total
\* is its annual figure times the ownership years, and depreciation is the
\* net price less a resale value of 45% (EV) or 40% (PHEV) of the net price.
C19_AggregateBreakdown ==
    (tco # NoValue /\ tco.exc = "none") =>
        /\ tco.total_cost_of_ownership
              = tco.depreciation + tco.total_fuel_cost
                + tco.total_maintenance_cost + tco.total_insurance_cost
                + tco.total_registration_cost
        /\ tco.total_fuel_cost
              = tco.annual_fuel_cost * prefs.ownership_years
        /\ tco.total_maintenance_cost
              = tco.annual_maintenance_cost * prefs.ownership_years
        /\ tco.total_insurance_cost
              = tco.annual_insurance_cost * prefs.ownership_years
        /\ tco.total_registration_cost
              = tco.annual_registration_cost * prefs.ownership_years
        /\ (tco.net_purchase_price - tco.depreciation) * 100
              = tco.net_purchase_price * ResalePercent(vehicle)

\* C19 witness: a PHEV kept for 5 years with costs under every heading
C19_Witness ==
    /\ tco # NoValue
    /\ tco.exc = "none"
    /\ Get(vehicle, "powertrain", "EV") = "PHEV"
    /\ prefs.ownership_years = 5
    /\ tco.net_purchase_price > 0
    /\ tco.total_fuel_cost > 0
    /\ tco.total_cost_of_ownership > tco.depreciation

\* C20: net_purchase_price is (base price + 1500) - incentive and is not
\* clamped at 0: a negative net price goes unchanged into the resale
\* value, the depreciation and the aggregate.
C20_NetPriceUnclamped ==
    (tco # NoValue /\ tco.exc = "none") =>
        /\ tco.net_purchase_price
              = Cents(Get(vehicle, "base_price", 0) + 1500)
                - tco.incentives_total
        /\ tco.net_purchase_price < 0 =>
              /\ tco.depreciation < 0
              /\ tco.depreciation * 100
                    = tco.net_purchase_price * (100 - ResalePercent(vehicle))
              /\ tco.total_cost_of_ownership - tco.depreciation
                    = (tco.annual_fuel_cost + tco.annual_maintenance_cost
                       + tco.annual_insurance_cost
                       + tco.annual_registration_cost)
                      * prefs.ownership_years

\* C20 witness: a record without a price got 9500 in California, so the
\* net price is 1500 - 9500 and the depreciation is 55% of it
C20_Witness ==
    /\ tco # NoValue
    /\ tco.exc = "none"
    /\ "base_price" \notin DOMAIN vehicle
    /\ tco.incentives_total = Cents(9500)
    /\ tco.net_purchase_price = 0 - Cents(8000)
    /\ tco.depreciation = 0 - Cents(4400)

\* every result on record is what its function gives for the arguments of
\* its own call and the incentive table as get_incentives_data builds it
ResultsFromOwnArguments ==
    /\ incentive.exc = "none" =>
          incentive.value = calculate_incentive(vehicle, region,
                                                IncentivesData)
    /\ tco # NoValue => tco = calculate_tco(vehicle, prefs, IncentivesData)
    /\ score.exc = "none" =>
          score.value = score_vehicle(vehicle, prefs, ties_up)
    /\ filtered.exc = "none" =>
          filtered.value = filter_vehicles(catalog, prefs)
    /\ pt_rec.exc = "none" =>
          pt_rec.value = recommend_powertrain(prefs, ties_up)

\* C26: filter_vehicles, score_vehicle, calculate_incentive, calculate_tco
\* and recommend_powertrain leave the catalog, the vehicle record and the
\* preferences as they were, so after any sequence of calls these equal
\* their initial values; and no call leaves anything behind that a later
\* call's result depends on: each result is a function of the arguments of
\* its own call.
C26_FrameAndPurity ==
    /\ [][catalog' = catalog /\ vehicle' = vehicle /\ prefs' = prefs]_vars
    /\ []ResultsFromOwnArguments

\* C26 witness: after filter_vehicles, calculate_incentive and calculate_tco
\* on a catalog vehicle that the filter keeps and that gets an incentive,
\* the TCOResult reports the incentive calculate_incentive returned
C26_Witness ==
    /\ calls = <<"filter_vehicles", "calculate_incentive", "calculate_tco">>
    /\ catalog = <<tesla_model_3_sr>>
    /\ filtered.value = catalog
    /\ tco.exc = "none"
    /\ incentive.value > 0
    /\ tco.incentives_total = incentive.value

-----------------------------------------------------------------------------
(* recommend_powertrain called on one preferences value *)

\* home charging: level 2, level 1, none
HomeCharging ==
    {[available |-> TRUE,  type |-> "level2"],
     [available |-> TRUE,  type |-> "level1"],
     [available |-> FALSE, type |-> "level2"]}

\* preferences that take every branch of every rule of the advisor
AdvisorPreferences ==
    {[DefaultPreferences EXCEPT
        !.daily_commute_km        = km,
        !.long_trips_frequency    = trips,
        !.home_charging_available = home.available,
        !.home_charging_type      = home.type,
        !.work_charging_available = work,
        !.zero_emissions_priority = zero] :
        km    \in {50, 75, 100, 101},
        trips \in {"never", "rarely", "monthly", "weekly"},
        home  \in HomeCharging,
        work  \in BOOLEAN,
        zero  \in 1..5}

InitAdvisor ==
    /\ pc = "ready"
    /\ catalog = <<>>
    /\ prefs \in AdvisorPreferences
    /\ vehicle = EmptyDict
    /\ region = prefs.region.value
    /\ ties_up \in BOOLEAN
    /\ NothingCalled

NextAdvisor == calls = <<>> /\ CallRecommendPowertrain

SpecAdvisor == InitAdvisor /\ [][NextAdvisor]_vars

\* C12: the (recommendation, confidence) pair follows from the two scores
\* alone: EV/High iff ev_score > phev_score + 3, PHEV/High iff
\* phev_score > ev_score + 3, EV/Medium iff 0 < ev_score - phev_score <= 3,
\* PHEV/Medium iff 0 < phev_score - ev_score <= 3, Either/Low iff the scores
\* are equal; no other pair is returned.
C12_DecisionFromScores ==
    pt_rec.exc = "none" =>
        LET r    == pt_rec.value
            lead == r.ev_score - r.phev_score
            pair == <<r.recommendation, r.confidence>>
        IN  /\ pair = <<"EV", "High">>     <=> lead > 3
            /\ pair = <<"PHEV", "High">>   <=> lead < -3
            /\ pair = <<"EV", "Medium">>   <=> (0 < lead /\ lead <= 3)
            /\ pair = <<"PHEV", "Medium">> <=> (0 < -lead /\ -lead <= 3)
            /\ pair = <<"Either", "Low">>  <=> lead = 0
            /\ pair \in {<<"EV", "High">>, <<"PHEV", "High">>,
                          <<"EV", "Medium">>, <<"PHEV", "Medium">>,
                          <<"Either", "Low">>}

\* C12 witness: a lead of exactly 3 for the EV gave EV with Medium confidence
C12_Witness ==
    /\ pt_rec.exc = "none"
    /\ pt_rec.value.ev_score = pt_rec.value.phev_score + 3
    /\ pt_rec.value.recommendation = "EV"
    /\ pt_rec.value.confidence = "Medium"

\* the preferences of the advisor case: commute 75 km, long trips rarely,
\* level-2 home charging, no work charging, zero-emissions priority 3
AdvisorCase ==
    /\ prefs.daily_commute_km = 75
    /\ prefs.long_trips_frequency = "rarely"
    /\ prefs.home_charging_available
    /\ prefs.home_charging_type = "level2"
    /\ ~prefs.work_charging_available
    /\ prefs.zero_emissions_priority = 3

\* C13 as stated: for the advisor case the two scores tie and the
\* recommendation is Either with confidence Low.
C13_AdvisorCaseTies ==
    (pt_rec.exc = "none" /\ AdvisorCase) =>
        /\ pt_rec.value.ev_score = pt_rec.value.phev_score
        /\ pt_rec.value.recommendation = "Either"
        /\ pt_rec.value.confidence = "Low"

\* C13 amended: for the advisor case the scores are the sums of the rule
\* table, 2 + 2 + 4 = 8 for the EV and 2 + 2 = 4 for the PHEV; they do not
\* tie, and the recommendation is EV with confidence High.
C13_AdvisorCaseScores ==
    (pt_rec.exc = "none" /\ AdvisorCase) =>
        /\ pt_rec.value.ev_score = 8
        /\ pt_rec.value.phev_score = 4
        /\ pt_rec.value.recommendation = "EV"
        /\ pt_rec.value.confidence = "High"

\* C13 witness: the advisor was called for the advisor case and gave no
\* reason for the PHEV
C13_Witness ==
    /\ pt_rec.exc = "none"
    /\ AdvisorCase
    /\ pt_rec.value.reasons_ev = <<"Level 2 home charging available">>
    /\ pt_rec.value.reasons_phev = <<>>

\* the points of the rule table for the EV
TableEvPoints(p) ==
    (IF p.daily_commute_km <= 50 THEN 3
     ELSE IF p.daily_commute_km <= 100 THEN 2 ELSE 0)
    + (CASE p.long_trips_frequency = "never"   -> 3
         [] p.long_trips_frequency = "rarely"  -> 2
         [] p.long_trips_frequency = "monthly" -> 0
         [] p.long_trips_frequency = "weekly"  -> 0)
    + (IF ~p.home_charging_available THEN 0
       ELSE IF p.home_charging_type = "level2" THEN 4 ELSE 2)
    + (IF p.work_charging_available THEN 2 ELSE 0)
    + (IF p.zero_emissions_priority >= 4 THEN 3 ELSE 0)

\* the points of the rule table for the PHEV
TablePhevPoints(p) ==
    (IF p.daily_commute_km <= 50 THEN 2
     ELSE IF p.daily_commute_km <= 100 THEN 2 ELSE 3)
    + (CASE p.long_trips_frequency = "never"   -> 0
         [] p.long_trips_frequency = "rarely"  -> 2
         [] p.long_trips_frequency = "monthly" -> 3
         [] p.long_trips_frequency = "weekly"  -> 4)
    + (IF ~p.home_charging_available THEN 4
       ELSE IF p.home_charging_type = "level2" THEN 0 ELSE 1)
    + (IF p.zero_emissions_priority <= 2 THEN 2 ELSE 0)

\* C21: the ev_score and phev_score recommend_powertrain returns are the
\* sums of the rule table: commute <= 50 EV+3/PHEV+2, <= 100 EV+2/PHEV+2,
\* else PHEV+3; long trips never EV+3, rarely EV+2/PHEV+2, monthly PHEV+3,
\* weekly PHEV+4; home charging level 2 EV+4, level 1 EV+2/PHEV+1, none
\* PHEV+4; work charging EV+2; zero-emissions priority >= 4 EV+3, <= 2
\* PHEV+2, 3 nothing.
C21_ScoresFollowTable ==
    pt_rec.exc = "none" =>
        /\ pt_rec.value.ev_score = TableEvPoints(prefs)
        /\ pt_rec.value.phev_score = TablePhevPoints(prefs)

\* C21 witness: a 100 km commute, monthly trips, level-1 home charging,
\* work charging and priority 2 scored 2 + 2 + 2 = 6 against 2 + 3 + 1 + 2
C21_Witness ==
    /\ pt_rec.exc = "none"
    /\ prefs.daily_commute_km = 100
    /\ prefs.long_trips_frequency = "monthly"
    /\ prefs.home_charging_available
    /\ prefs.home_charging_type = "level1"
    /\ prefs.work_charging_available
    /\ prefs.zero_emissions_priority = 2
    /\ pt_rec.value.ev_score = 6
    /\ pt_rec.value.phev_score = 8

\* C27: recommend_powertrain returns 0 <= ev_score <= 15,
\* 0 <= phev_score <= 13 and 9 <= ev_score + phev_score <= 18; the total is
\* never 0, so the percentages never take the 50/50 default.
C27_ScoreBounds ==
    pt_rec.exc = "none" =>
        LET r     == pt_rec.value
            total == r.ev_score + r.phev_score
        IN  /\ r.ev_score \in 0..15
            /\ r.phev_score \in 0..13
            /\ total \in 9..18
            /\ (r.ev_percentage = 500 /\ r.phev_percentage = 500)
                  => r.ev_score = r.phev_score

\* C27 witness: the lowest total, 3 + 3 + 3 = 9, all of it from a long
\* commute, no long trips, level-1 home charging and priority 3
C27_Witness ==
    /\ pt_rec.exc = "none"
    /\ pt_rec.value.ev_score + pt_rec.value.phev_score = 9
    /\ prefs.daily_commute_km > 100
    /\ prefs.zero_emissions_priority = 3

-----------------------------------------------------------------------------
(* calculate_incentive and calculate_tco over every powertrain value and
   every member of Region *)

\* records with the powertrain 'EV', 'PHEV', the importer's 'BEV' and None,
\* or without the key
DispatchVehicles ==
    {a @@ b @@ c @@ d :
        a \in Opt("powertrain", {"EV", "PHEV", "BEV", "None"}),
        b \in {EmptyDict, [kwh_per_100km |-> 190, l_per_100km |-> 84]},
        c \in Opt("base_price", {40240}),
        d \in Opt("range_km", {25, 60})}
    \cup {scraped_entry}

\* preferences for every member of Region
DispatchPreferences ==
    {[DefaultPreferences EXCEPT !.region = RegionMember(code)] :
        code \in RegionValues}

InitDispatch ==
    /\ pc = "ready"
    /\ prefs \in DispatchPreferences
    /\ vehicle \in DispatchVehicles
    /\ catalog = <<vehicle>>
    /\ region = prefs.region.value
    /\ ties_up = FALSE
    /\ NothingCalled

NextDispatch == CallCalculateTco \/ CallCalculateIncentive

SpecDispatch == InitDispatch /\ [][NextDispatch]_vars

\* the figures the code holds for the EV branch and for the branch of
\* everything else: table column, maintenance per km in hundredths,
\* registration fee, resale percentage
EvBranch   == [column |-> "ev", maintenance |-> 3, registration |-> 150,
               resale |-> 45]
PhevBranch == [column |-> "phev", maintenance |-> 5, registration |-> 200,
               resale |-> 40]

\* the incentive of a vehicle of DispatchVehicles (priced under both
\* ceilings, without origin flag) from the column col of the region's row
ColumnIncentive(code, col) ==
    LET A == IF code \in DOMAIN IncentivesData
             THEN Cents(IncentivesData[code][col]) ELSE 0
    IN  IF code \in FederalFamily THEN A \div 2 ELSE A

\* C29: the dispatch is 'EV' against everything else.  A record whose
\* powertrain is present and not exactly 'EV' ('PHEV', 'BEV', None) gets the
\* PHEV incentive amount and the PHEV energy blend, maintenance rate,
\* registration fee and resale percentage; a record without the key gets
\* the EV figures in calculate_incentive and in calculate_tco alike.
C29_PowertrainDispatch ==
    LET other == "powertrain" \in DOMAIN vehicle /\ vehicle.powertrain # "EV"
        br    == IF other THEN PhevBranch ELSE EvBranch
        kwh   == Get(vehicle, "kwh_per_100km", 180)
        share == PhevShare(vehicle, prefs)
    IN  /\ incentive.exc = "none" =>
              incentive.value = ColumnIncentive(region, br.column)
        /\ (tco # NoValue /\ tco.exc = "none") =>
              /\ tco.incentives_total
                    = ColumnIncentive(prefs.region.value, br.column)
              /\ tco.annual_maintenance_cost
                    = prefs.annual_km * br.maintenance
              /\ tco.annual_registration_cost = Cents(br.registration)
              /\ (tco.net_purchase_price - tco.depreciation) * 100
                    = tco.net_purchase_price * br.resale
              /\ tco.annual_fuel_cost * 10000
                    = IF other
                      THEN kwh * share * prefs.annual_km
                               * prefs.electricity_cost_kwh
                           + Get(vehicle, "l_per_100km", 60) * (10 - share)
                               * prefs.annual_km * prefs.gas_cost_liter
                      ELSE kwh * 10 * prefs.annual_km
                               * prefs.electricity_cost_kwh

\* C29 witness: an entry as the importer writes it, powertrain 'BEV', got
\* the PHEV amount of Quebec and the PHEV registration fee
C29_Witness ==
    /\ incentive.exc = "none"
    /\ tco # NoValue
    /\ tco.exc = "none"
    /\ vehicle = scraped_entry
    /\ region = "canada_quebec"
    /\ incentive.value = Cents(7500)
    /\ tco.incentives_total = Cents(7500)
    /\ tco.annual_registration_cost = Cents(200)

\* C30: every member of Region has a row in the premium table, so the
\* fallback premium of 1500 is never used for a member; every member but
\* 'portugal' has a row in the incentive table, and in 'portugal' the
\* incentive is 0 for every vehicle while the premium is 700.
C30_RegionTables ==
    /\ incentive.exc = "none" =>
          /\ region # "portugal" => region \in DOMAIN incentives_cache.value
          /\ region = "portugal" =>
                /\ region \notin DOMAIN incentives_cache.value
                /\ incentive.value = 0
    /\ (tco # NoValue /\ tco.exc = "none") =>
          LET premium == tco.annual_insurance_cost
                           - Get(vehicle, "base_price", 40000)
          IN  /\ premium # Cents(1500)
              /\ prefs.region.value = "portugal" =>
                    /\ premium = Cents(700)
                    /\ tco.incentives_total = 0

\* C30 witness: in portugal a priced EV got no incentive from either
\* function and a premium of 700 plus the price surcharge
C30_Witness ==
    /\ incentive.exc = "none"
    /\ tco # NoValue
    /\ tco.exc = "none"
    /\ region = "portugal"
    /\ Get(vehicle, "powertrain", "None") = "EV"
    /\ Get(vehicle, "base_price", 0) = 40240
    /\ incentive.value = 0
    /\ tco.incentives_total = 0
    /\ tco.annual_insurance_cost = Cents(700) + 40240

-----------------------------------------------------------------------------
(* load_vehicle_database called by main() while the importer rewrites
   evdb_sync.json *)

\* the longest list in evdb_sync.json
MaxSyncLen == 2

\* entries of evdb_sync.json: a new name, the same name in capitals with a
\* trailing blank, a static name in lower case between blanks, a name of
\* blanks only, and an entry without a name
shouting_entry ==
    [name |-> "IMPORTED EV ", url |-> "https://ev-database.org/car/2",
     powertrain |-> "PHEV"]

static_twin ==
    [name |-> " tesla model 3 standard range ",
     url |-> "https://ev-database.org/car/3", powertrain |-> "BEV"]

blank_entry ==
    [name |-> "  ", url |-> "https://ev-database.org/car/4",
     powertrain |-> "BEV"]

nameless_entry ==
    [url |-> "https://ev-database.org/car/5", powertrain |-> "None"]

SyncEntries ==
    {scraped_entry, shouting_entry, static_twin, blank_entry, nameless_entry}

SyncFiles ==
    {NoFile} \cup {FileOf(es) : es \in SeqsUpTo(SyncEntries, MaxSyncLen)}

InitMerge ==
    /\ pc = "ready"
    /\ catalog = StaticCatalog
    /\ prefs = DefaultPreferences
    /\ vehicle = EmptyDict
    /\ region = "usa_federal"
    /\ ties_up = FALSE
    /\ sync_file \in SyncFiles
    /\ load_cache = EmptyLoadCache
    /\ loaded = NoValue
    /\ incentives_cache = EmptyCache
    /\ incentive = NoValue
    /\ tco = NoValue
    /\ first_tco = NoValue
    /\ calls = <<>>
    /\ score = NoValue
    /\ filtered = NoValue
    /\ scored_vehicles = <<>>
    /\ pt_rec = NoValue

\* main() of the importer: json.dump(detailed, f) into evdb_sync.json
WriteSyncFile ==
    /\ pc = "ready"
    /\ \E es \in SeqsUpTo(SyncEntries, MaxSyncLen) :
          /\ FileOf(es) # sync_file
          /\ sync_file' = FileOf(es)
    /\ UNCHANGED <<ties_up, pc, catalog, prefs, vehicle, region,
                   incentives_cache, incentive, tco, first_tco, calls, score,
                   filtered, scored_vehicles, pt_rec, load_cache, loaded>>

NextMerge == CallLoadVehicleDatabase \/ WriteSyncFile

SpecMerge == InitMerge /\ [][NextMerge]_vars

RECURSIVE Pick(_, _, _)
\* the entries of the list at the positions of idx from i on, in list order
Pick(entries, idx, i) ==
    IF i > Len(entries) THEN <<>>
    ELSE (IF i \in idx THEN <<entries[i]>> ELSE <<>>)
            \o Pick(entries, idx, i + 1)

\* the merge of the list `entries` into the static catalog as the rule
\* states it: an entry is appended when its trimmed name is not empty and
\* differs, case-insensitively, from the trimmed name of every static entry
\* and of every entry before it in the file
MergeRule(entries) ==
    LET Trimmed(i) == strip(Get(entries[i], "name", ""))
        Key(i)     == lower(Trimmed(i))
        static     == {lower(strip(Get(StaticCatalog[k], "name", ""))) :
                          k \in 1..Len(StaticCatalog)}
        named      == {i \in 1..Len(entries) : Trimmed(i) # ""}
        appended   == {i \in named :
                          /\ Key(i) \notin static
                          /\ \A j \in 1..(i - 1) : Key(j) # Key(i)}
    IN  [vehicles_data |-> StaticCatalog \o Pick(entries, appended, 1),
         added         |-> Cardinality(appended),
         skipped       |-> Cardinality(named \ appended)]

\* C25: what load_vehicle_database(use_sync = True) returns is the static
\* entries, first and in their order, followed by the entries of the sync
\* file, in file order, whose trimmed name is not empty and differs,
\* case-insensitively, from the trimmed name of every static entry and of
\* every entry appended before; added is the number appended and skipped
\* the number rejected as duplicates, nameless entries counting in
\* neither; with the file absent it is the static catalog with
\* added = skipped = 0.
C25_CatalogMerge ==
    (loaded.exc = "none" /\ loaded.use_sync) =>
        loaded.value
          = IF loaded.sync_file.present
            THEN MergeRule(loaded.sync_file.entries)
            ELSE [vehicles_data |-> StaticCatalog, added |-> 0,
                  skipped |-> 0]

\* the first call of load_vehicle_database, which finds the memo empty and
\* runs the body, returns what the merge rule gives for the file it read
FirstLoadFollowsRule ==
    (Len(calls) = 1 /\ loaded.exc = "none" /\ loaded.use_sync) =>
        loaded.value
          = IF loaded.sync_file.present
            THEN MergeRule(loaded.sync_file.entries)
            ELSE [vehicles_data |-> StaticCatalog, added |-> 0,
                  skipped |-> 0]

\* a first call appended one entry of a file of two and rejected the other
\* as a duplicate
FirstLoadMerged ==
    /\ Len(calls) = 1
    /\ loaded.exc = "none"
    /\ loaded.sync_file = FileOf(<<shouting_entry, scraped_entry>>)
    /\ loaded.value.vehicles_data = Append(StaticCatalog, shouting_entry)
    /\ loaded.value.added = 1
    /\ loaded.value.skipped = 1

-----------------------------------------------------------------------------
(* main(): one run of the script, from the sidebar to the tabs *)

\* the widgets of the sidebar at the values they show first
DefaultWidgets ==
    [daily_commute    |-> 50,
     annual_km        |-> 20000,
     long_trips       |-> "rarely",
     home_charging    |-> "Level 2 (240V)",
     work_charging    |-> FALSE,
     budget_range     |-> <<30000, 60000>>,
     region           |-> <<"USA - California", "usa_california">>,
     ownership_years  |-> 5,
     electricity_cost |-> 15,
     gas_cost         |-> 150,
     vehicle_types    |-> <<"sedan", "suv", "crossover">>,
     min_seats        |-> 5,
     needs_awd        |-> FALSE,
     needs_towing     |-> FALSE,
     min_towing       |-> 0,
     range_priority        |-> 3,
     charging_priority     |-> 3,
     efficiency_priority   |-> 3,
     safety_priority       |-> 4,
     accel_priority        |-> 2,
     tech_priority         |-> 3,
     reliability_priority  |-> 4,
     emissions_priority    |-> 3,
     preferred_brands |-> <<>>,
     excluded_brands  |-> <<>>]

\* what the user has set when the button is pressed
WidgetSamples ==
    {[DefaultWidgets EXCEPT !.budget_range = b, !.region = r,
                            !.ownership_years = y, !.vehicle_types = t,
                            !.preferred_brands = pb] :
        b  \in {<<30000, 60000>>, <<20000, 45000>>},
        r  \in {<<"USA - California", "usa_california">>,
                <<"Portugal", "portugal">>},
        y  \in {5, 10},
        t  \in {<<"sedan", "suv", "crossover">>, <<>>},
        pb \in {<<>>, <<"Honda">>}}

\* preferences = UserPreferences(...) built from the widgets; the fields the
\* call does not name keep the default of the dataclass
build_preferences(w) ==
    [DefaultPreferences EXCEPT
        !.daily_commute_km        = w.daily_commute,
        !.annual_km               = w.annual_km,
        !.long_trips_frequency    = w.long_trips,
        !.home_charging_available = (w.home_charging # "No Home Charging"),
        !.home_charging_type      = IF w.home_charging = "Level 2 (240V)"
                                    THEN "level2" ELSE "level1",
        !.work_charging_available = w.work_charging,
        !.max_budget              = w.budget_range[2],
        !.min_budget              = w.budget_range[1],
        !.region                  = RegionMember(w.region[2]),
        !.ownership_years         = w.ownership_years,
        !.electricity_cost_kwh    = w.electricity_cost,
        !.gas_cost_liter          = w.gas_cost,
        !.vehicle_types           = IF w.vehicle_types # <<>>
                                    THEN w.vehicle_types ELSE <<"sedan">>,
        !.min_seats               = w.min_seats,
        !.needs_awd               = w.needs_awd,
        !.needs_towing            = w.needs_towing,
        !.min_towing_kg           = w.min_towing,
        !.range_priority          = w.range_priority,
        !.charging_speed_priority = w.charging_priority,
        !.efficiency_priority     = w.efficiency_priority,
        !.acceleration_priority   = w.accel_priority,
        !.tech_features_priority  = w.tech_priority,
        !.safety_priority         = w.safety_priority,
        !.reliability_priority    = w.reliability_priority,
        !.zero_emissions_priority = w.emissions_priority,
        !.preferred_brands        = w.preferred_brands,
        !.excluded_brands         = w.excluded_brands]

\* the entry the loop appends for one filtered vehicle
scored_entry(v, preferences, incentives, up) ==
    [vehicle |-> v,
     score   |-> score_vehicle(v, preferences, up),
     tco     |-> calculate_tco(v, preferences, incentives)]

RECURSIVE score_loop(_, _, _, _, _)
\* for v in filtered_vehicles: scored_vehicles.append({...})
score_loop(acc, rest, preferences, incentives, up) ==
    IF rest = <<>> THEN acc
    ELSE score_loop(Append(acc, scored_entry(Head(rest), preferences,
                                             incentives, up)),
                    Tail(rest), preferences, incentives, up)

\* the sidebar down to the brand lists: v['brand'] of a record without a
\* brand raises KeyError and ends the run
RenderSidebar ==
    /\ pc = "start"
    /\ pc' = IF \A i \in 1..Len(catalog) : "brand" \in DOMAIN catalog[i]
             THEN "sidebar" ELSE "KeyError"
    /\ UNCHANGED <<sync_vars, catalog, prefs, vehicle, region, incentives_cache,
                   incentive, tco, first_tco, calls, score, filtered,
                   scored_vehicles, pt_rec, ties_up>>

\* the button is pressed: preferences are built, the catalog is filtered,
\* every filtered vehicle is scored and costed, the list is sorted and the
\* powertrain advice is computed
Recalculate ==
    /\ pc = "sidebar"
    /\ \E w \in WidgetSamples :
          /\ prefs' = build_preferences(w)
          /\ filtered' = Returned(filter_vehicles(catalog, prefs'))
          /\ incentives_cache' = IF filtered'.value = <<>>
                                 THEN incentives_cache
                                 ELSE get_incentives_data(incentives_cache)
          /\ \E entries \in {score_loop(<<>>, filtered'.value, prefs',
                                        incentives_cache'.value, ties_up)} :
                IF \E i \in 1..Len(entries) : entries[i].tco.exc # "none"
                THEN /\ scored_vehicles' = entries
                     /\ pt_rec' = NoValue
                     /\ pc' = "ZeroDivisionError"
                ELSE /\ scored_vehicles' = sort_desc(<<>>, entries)
                     /\ pt_rec' = Returned(recommend_powertrain(prefs',
                                                                ties_up))
                     /\ pc' = "tabs"
    /\ UNCHANGED <<sync_vars, catalog, vehicle, region, incentive, tco, first_tco, calls,
                   score, ties_up>>

\* a run in which the button is not pressed: preferences is None and the
\* three results are empty
NoRecalculate ==
    /\ pc = "sidebar"
    /\ prefs' = NoValue
    /\ filtered' = Returned(<<>>)
    /\ scored_vehicles' = <<>>
    /\ pt_rec' = NoValue
    /\ pc' = "tabs"
    /\ UNCHANGED <<sync_vars, catalog, vehicle, region, incentives_cache, incentive, tco,
                   first_tco, calls, score, ties_up>>

\* any interaction runs the script again from the top; only the memo of
\* get_incentives_data outlives a run
Rerun ==
    /\ pc = "tabs"
    /\ pc' = "start"
    /\ prefs' = NoValue
    /\ filtered' = NoValue
    /\ scored_vehicles' = <<>>
    /\ pt_rec' = NoValue
    /\ UNCHANGED <<sync_vars, catalog, vehicle, region, incentives_cache, incentive, tco,
                   first_tco, calls, score, ties_up>>

Init ==
    /\ pc = "start"
    /\ catalog \in SeqsUpTo(CatalogSamples, MaxCatalogLen)
    /\ prefs = NoValue
    /\ vehicle = EmptyDict
    /\ region = "usa_federal"
    /\ ties_up \in BOOLEAN
    /\ NothingCalled

Next ==
    \/ RenderSidebar
    \/ Recalculate
    \/ NoRecalculate
    \/ Rerun

Spec == Init /\ [][Next]_vars

\* the entry the pipeline owes to the k-th filtered vehicle
ExpectedEntry(k) ==
    [vehicle |-> filtered.value[k],
     score   |-> score_vehicle(filtered.value[k], prefs, ties_up),
     tco     |-> calculate_tco(filtered.value[k], prefs, IncentivesData)]

\* the one-to-one maps of 1..n onto itself
Orderings(n) ==
    {p \in [1..n -> 1..n] : \A i, j \in 1..n : p[i] = p[j] => i = j}

\* C4: after a recalculation scored_vehicles holds one {vehicle, score, tco}
\* entry for each filtered vehicle, in the order of non-increasing final
\* score, entries of an equal final score in the order of the catalog; an
\* empty filter result gives an empty list.
C4_PipelineSortedStable ==
    (pc = "tabs" /\ prefs # NoValue) =>
        /\ filtered.value = SelectSeq(catalog, LAMBDA v : ~Excluded(v, prefs))
        /\ Len(scored_vehicles) = Len(filtered.value)
        /\ filtered.value = <<>> => scored_vehicles = <<>>
        /\ \E expected \in {[k \in 1..Len(filtered.value) |->
                                                      ExpectedEntry(k)]},
              p \in Orderings(Len(filtered.value)) :
              /\ \A i \in 1..Len(scored_vehicles) :
                    scored_vehicles[i] = expected[p[i]]
              /\ \A i, j \in 1..Len(scored_vehicles) :
                    i < j =>
                       \/ sort_key(scored_vehicles[i])
                             > sort_key(scored_vehicles[j])
                       \/ /\ sort_key(scored_vehicles[i])
                                = sort_key(scored_vehicles[j])
                          /\ p[i] < p[j]

\* C4 witness: three vehicles came through the filter, the sort moved the
\* last of them to the front, and the other two, different vehicles of an
\* equal final score, stayed in the order of the catalog
C4_Witness ==
    /\ pc = "tabs"
    /\ prefs # NoValue
    /\ Len(filtered.value) = 3
    /\ Len(scored_vehicles) = 3
    /\ scored_vehicles[1].vehicle = filtered.value[3]
    /\ scored_vehicles[2].vehicle = filtered.value[1]
    /\ scored_vehicles[3].vehicle = filtered.value[2]
    /\ filtered.value[1] # filtered.value[2]
    /\ sort_key(scored_vehicles[2]) = sort_key(scored_vehicles[3])
    /\ sort_key(scored_vehicles[1]) > sort_key(scored_vehicles[2])

=============================================================================
